---- MODULE Spec2Model ----
(***************************************************************************)
(* Entity extraction, resolution, mention ledger and graph builder of      *)
(* civic-app, modelled over a SQLAlchemy session created with              *)
(* autoflush=False (app/db.py): a query sees only flushed rows, db.add()   *)
(* leaves the object pending until the next flush, and a bulk DELETE       *)
(* touches flushed rows only.                                              *)
(***************************************************************************)
EXTENDS Integers, Sequences, FiniteSets, TLC

(***************************************************************************)
(* Bounds of the model.                                                    *)
(***************************************************************************)
\* pending (added, unflushed) EntityMention objects a session may hold
MaxPending == 2

\* the number of ingest_meeting calls of a run
MaxCalls == 3

\* Python's None for an optional integer column
None == 0

(***************************************************************************)
(* Text.  A text is a sequence of phrases; the phrases are the spans the   *)
(* extractor patterns and the alias search can tell apart.                 *)
(*   T_jane  "Mayor Jane Smith"     (titled name, PERSON_PREFIX pattern)   *)
(*   P_jane  "Jane Smith"           (the bare name, no title)              *)
(*   D_Feb   "February 17, 2026"    (DATE_PATTERN)                         *)
(*   D_feb   "february 17, 2026"    (DATE_PATTERN is case-insensitive)     *)
(*   Z_50322 "50322"                (ZIP_PATTERN)                          *)
(* `cap` is the number of leading phrases that lie within the first        *)
(* CONTEXT_CAP characters of the normalized text.                          *)
(***************************************************************************)
Texts ==
  ("" :> [atoms |-> <<>>, cap |-> 0]) @@
  [ mayor     |-> [atoms |-> <<"T_jane">>,            cap |-> 1],
    plain     |-> [atoms |-> <<"P_jane">>,            cap |-> 1],
    date      |-> [atoms |-> <<"D_Feb">>,             cap |-> 1],
    mayordate |-> [atoms |-> <<"D_Feb", "T_jane">>,   cap |-> 2],
    datezip   |-> [atoms |-> <<"Z_50322", "D_Feb">>,  cap |-> 2],
    longplain |-> [atoms |-> <<"D_feb", "P_jane">>,   cap |-> 1] ]

\* str.lower() on the strings the model handles
Lower(t) ==
  CASE t = "Jane Smith"        -> "jane smith"
    [] t = "February 17, 2026" -> "february 17, 2026"
    [] OTHER                   -> t

\* normalize_text: unescape, map smart punctuation, collapse whitespace.
\* Every string the extractor hands on is cut from already normalized text,
\* on which the function changes nothing; the one raw string of the model
\* is a meeting name with a doubled blank.
normalize_text(t) ==
  CASE t = "City  Council" -> "City Council"
    [] OTHER               -> t

\* text[:2000] of the normalized context
truncate(text) == SubSeq(text.atoms, 1, text.cap)

\* the span a phrase contributes to a match
MatchText(a) ==
  CASE a = "T_jane" -> "Jane Smith"
    [] a = "P_jane" -> "Jane Smith"
    [] a = "D_Feb"  -> "February 17, 2026"
    [] a = "D_feb"  -> "february 17, 2026"
    [] a = "Z_50322" -> "50322"

PhraseType(a) ==
  CASE a = "T_jane" -> "person"
    [] a = "P_jane" -> "none"
    [] a = "D_Feb"  -> "date"
    [] a = "D_feb"  -> "date"
    [] a = "Z_50322" -> "zip_code"

\* _normalize_entity_value: (display, normalized) of a match
normalize_entity_value(entity_type, value) ==
  LET raw == normalize_text(value) IN
  IF entity_type = "date"
  THEN <<raw, IF Lower(raw) = "february 17, 2026" THEN "2026-02-17" ELSE Lower(raw)>>
  ELSE <<raw, Lower(raw)>>

Candidate(a) ==
  LET v == normalize_entity_value(PhraseType(a), MatchText(a)) IN
  [entity_type      |-> PhraseType(a),
   display_value    |-> v[1],
   normalized_value |-> v[2],
   mention_text     |-> normalize_text(MatchText(a))]

RECURSIVE add_matches(_, _, _)
\* the inner add(): one candidate per (entity_type, normalized_value), first wins
add_matches(atoms, entity_type, found) ==
  IF atoms = <<>> THEN found
  ELSE LET a == Head(atoms)
           c == Candidate(a)
           seen == \E i \in 1..Len(found) :
                     /\ found[i].entity_type = c.entity_type
                     /\ found[i].normalized_value = c.normalized_value
       IN add_matches(Tail(atoms), entity_type,
                      IF PhraseType(a) = entity_type /\ ~seen
                      THEN Append(found, c) ELSE found)

\* extract_entities_from_text: dates first, then zip codes, persons last
extract_entities_from_text(text) ==
  add_matches(text.atoms, "person",
              add_matches(text.atoms, "zip_code",
                          add_matches(text.atoms, "date", <<>>)))

\* re.search(rf"\b{alias}\b", text, re.IGNORECASE) over a sequence of phrases
alias_occurs(alias_text, atoms) ==
  \E i \in 1..Len(atoms) :
     /\ atoms[i] \in {"T_jane", "P_jane"}
     /\ Lower(MatchText(atoms[i])) = Lower(alias_text)

(***************************************************************************)
(* The session.  A session state `s` holds the rows its transaction sees   *)
(* (flushed, committed or not), each table in primary-key order, and the   *)
(* objects added but not yet flushed.  An entity's id is its position in   *)
(* `entities`, a document's local id its position in `documents`.          *)
(***************************************************************************)
EmptyDb ==
  [entities    |-> <<>>,   \* Entity rows
   aliases     |-> <<>>,   \* EntityAlias rows
   mentions    |-> <<>>,   \* EntityMention rows
   connections |-> <<>>,   \* EntityConnection rows
   bindings    |-> <<>>,   \* EntityBinding rows
   meetings    |-> <<>>,   \* Meeting rows
   documents   |-> <<>>,   \* Document rows
   items       |-> <<>>,   \* AgendaItem rows
   doc_texts   |-> <<>>]   \* DocumentTextExtraction rows

\* sessionmaker(autoflush=False): a new session over the committed rows
SessionLocal(db) ==
  [entities      |-> db.entities,
   aliases       |-> db.aliases,
   mentions      |-> db.mentions,
   connections   |-> db.connections,
   bindings      |-> db.bindings,
   meetings      |-> db.meetings,
   documents     |-> db.documents,
   items         |-> db.items,
   doc_texts     |-> db.doc_texts,
   new_aliases   |-> <<>>,
   new_mentions  |-> <<>>,
   new_meetings  |-> <<>>,
   new_documents |-> <<>>,
   new_doc_texts |-> <<>>,
   error         |-> ""]      \* the constraint a failed flush violated

\* the rows of a session's transaction, as a commit makes them durable
Rows(s) ==
  [entities    |-> s.entities,
   aliases     |-> s.aliases,
   mentions    |-> s.mentions,
   connections |-> s.connections,
   bindings    |-> s.bindings,
   meetings    |-> s.meetings,
   documents   |-> s.documents,
   items       |-> s.items,
   doc_texts   |-> s.doc_texts]

\* the unique constraints of models/__init__.py
EntityKey(r)     == <<r.entity_type, r.normalized_value>>
AliasKey(r)      == <<r.entity_id, r.normalized_alias>>
MentionKey(r)    == <<r.entity_id, r.source_type, r.source_id, r.mention_text>>
ConnectionKey(r) == <<r.from_entity_id, r.to_entity_id, r.relation_type,
                      r.evidence_source_type, r.evidence_source_id>>
BindingKey(r)    == <<r.source_table, r.source_id>>
MeetingKey(r)    == r.meeting_id
DocumentKey(r)   == <<r.meeting_id, r.document_id>>
ItemKey(r)       == <<r.meeting_id, r.item_key>>

\* the columns of a unique constraint, by the constraint's name
RowKey(constraint, r) ==
  CASE constraint = "pk_meetings"                        -> MeetingKey(r)
    [] constraint = "uq_meeting_document_id"             -> DocumentKey(r)
    [] constraint = "uq_meeting_item_key"                -> ItemKey(r)
    [] constraint = "uq_document_text_extraction"        -> DocumentKey(r)
    [] constraint = "uq_entity_type_normalized"          -> EntityKey(r)
    [] constraint = "uq_entity_binding_source"           -> BindingKey(r)
    [] constraint = "uq_entity_connection_edge_evidence" -> ConnectionKey(r)
    [] constraint = "uq_entity_alias"                    -> AliasKey(r)
    [] constraint = "uq_entity_mention_source_text"      -> MentionKey(r)

\* no two of the rows agree on the columns of the constraint
Distinct(rows, constraint) ==
  \A i, j \in 1..Len(rows) :
     i # j => RowKey(constraint, rows[i]) # RowKey(constraint, rows[j])

\* the unique constraint an INSERT of the pending objects violates, "" if none
violated(s) ==
  LET Tables ==
        <<<<"pk_meetings", s.meetings \o s.new_meetings>>,
          <<"uq_meeting_document_id", s.documents \o s.new_documents>>,
          <<"uq_meeting_item_key", s.items>>,
          <<"uq_document_text_extraction", s.doc_texts \o s.new_doc_texts>>,
          <<"uq_entity_type_normalized", s.entities>>,
          <<"uq_entity_binding_source", s.bindings>>,
          <<"uq_entity_connection_edge_evidence", s.connections>>,
          <<"uq_entity_alias", s.aliases \o s.new_aliases>>,
          <<"uq_entity_mention_source_text", s.mentions \o s.new_mentions>>>>
      bad == {k \in 1..Len(Tables) : ~Distinct(Tables[k][2], Tables[k][1])}
  IN IF bad = {} THEN ""
     ELSE Tables[CHOOSE k \in bad : \A l \in bad : k <= l][1]

broken(s) == s.error # ""

\* Session.flush(): INSERT every pending object.  A unique-constraint
\* violation raises IntegrityError, the transaction is rolled back and the
\* session refuses further work until rollback(): `error` names the
\* constraint.
flush(s) ==
  LET Insert(constraint) ==
        IF constraint = ""
        THEN [s EXCEPT !.aliases = @ \o s.new_aliases,
                       !.mentions = @ \o s.new_mentions,
                       !.meetings = @ \o s.new_meetings,
                       !.documents = @ \o s.new_documents,
                       !.doc_texts = @ \o s.new_doc_texts,
                       !.new_aliases = <<>>,
                       !.new_mentions = <<>>,
                       !.new_meetings = <<>>,
                       !.new_documents = <<>>,
                       !.new_doc_texts = <<>>]
        ELSE [s EXCEPT !.error = constraint]
  IN IF broken(s) THEN s ELSE Insert(violated(s))

\* a lookup that compares the stored display value, not the normalized one
find_entity_by_display(s, entity_type, normalized_value) ==
  LET hits == {i \in 1..Len(s.entities) :
                 /\ s.entities[i].entity_type = entity_type
                 /\ s.entities[i].display_value = normalized_value}
  IN IF hits = {} THEN 0 ELSE CHOOSE i \in hits : \A j \in hits : i <= j

\* query(Entity).filter(entity_type ==, normalized_value ==).one_or_none():
\* the id of the first matching row, 0 when there is none
find_entity(s, entity_type, normalized_value) ==
  LET hits == {i \in 1..Len(s.entities) :
                 /\ s.entities[i].entity_type = entity_type
                 /\ s.entities[i].normalized_value = normalized_value}
  IN IF hits = {} THEN 0 ELSE CHOOSE i \in hits : \A j \in hits : i <= j

\* _upsert_entity_alias
upsert_entity_alias(s, entity_id, alias_text0) ==
  LET alias_text == normalize_text(alias_text0)
      normalized_alias == Lower(alias_text)
      hit == \E i \in 1..Len(s.aliases) :
               /\ s.aliases[i].entity_id = entity_id
               /\ s.aliases[i].normalized_alias = normalized_alias
  IN IF alias_text = "" \/ hit THEN s
     ELSE [s EXCEPT !.new_aliases =
             Append(@, [entity_id |-> entity_id, alias_text |-> alias_text,
                        normalized_alias |-> normalized_alias])]

\* _upsert_entity: [s |-> the session after, id |-> the row's id]
upsert_entity(s, entity_type, display_value, normalized_value) ==
  LET found == find_entity(s, entity_type, normalized_value)
      id == IF found = 0 THEN Len(s.entities) + 1 ELSE found
      \* the alias upsert that follows, for persons
      Alias(s1) ==
        [s  |-> IF broken(s1) \/ entity_type # "person" THEN s1
                ELSE upsert_entity_alias(
                       s1, id,
                       IF s1.entities[id].display_value # ""
                       THEN s1.entities[id].display_value ELSE display_value),
         id |-> id]
  IN Alias(IF found = 0
           THEN flush([s EXCEPT !.entities =
                         Append(@, [entity_type      |-> entity_type,
                                    display_value    |-> display_value,
                                    normalized_value |-> normalized_value])])
           ELSE IF s.entities[found].display_value = ""
                THEN [s EXCEPT !.entities[found].display_value = display_value]
                ELSE s)

\* the keyword arguments that name a source: an evidence tuple and its owners
Src(meeting_id, source_type, source_id, document_id) ==
  [meeting_id |-> meeting_id, source_type |-> source_type,
   source_id |-> source_id, document_id |-> document_id]

Mention(src, entity_id, mention_text, confidence) ==
  [entity_id    |-> entity_id,
   meeting_id   |-> src.meeting_id,
   document_id  |-> src.document_id,
   source_type  |-> src.source_type,
   source_id    |-> src.source_id,
   mention_text |-> mention_text,
   confidence   |-> confidence]

\* the (entity_id, lowercased mention_text) keys of the flushed mentions of a source
stored_keys(s, src) ==
  {<<s.mentions[i].entity_id, Lower(normalize_text(s.mentions[i].mention_text))>> :
     i \in {k \in 1..Len(s.mentions) :
              /\ s.mentions[k].source_type = src.source_type
              /\ s.mentions[k].source_id = src.source_id}}

RECURSIVE alias_pass(_, _, _, _, _, _)
\* the loop of _add_person_alias_mentions over the alias rows, in id order
alias_pass(s, src, atoms, k, existing_keys, made) ==
  IF k > Len(s.aliases) THEN [s |-> s, mentions |-> made]
  ELSE LET alias == s.aliases[k]
           alias_text == normalize_text(alias.alias_text)
           key == <<alias.entity_id, Lower(alias_text)>>
           skip == \/ s.entities[alias.entity_id].entity_type # "person"
                   \/ alias_text = ""
                   \/ ~alias_occurs(alias_text, atoms)
                   \/ key \in existing_keys
           m == Mention(src, alias.entity_id, alias_text, 7)
       IN IF skip
          THEN alias_pass(s, src, atoms, k + 1, existing_keys, made)
          ELSE alias_pass([s EXCEPT !.new_mentions = Append(@, m)], src, atoms,
                          k + 1, existing_keys \cup {key}, Append(made, m))

\* an alias pass that forgets the keys of the direct pass
add_person_alias_mentions_stored_only(s, src, atoms, existing_keys) ==
  IF atoms = <<>> THEN [s |-> s, mentions |-> <<>>]
  ELSE alias_pass(s, src, atoms, 1, stored_keys(s, src), <<>>)

\* _add_person_alias_mentions
add_person_alias_mentions(s, src, atoms, existing_keys) ==
  IF atoms = <<>> THEN [s |-> s, mentions |-> <<>>]
  ELSE alias_pass(s, src, atoms, 1, existing_keys \cup stored_keys(s, src), <<>>)

RECURSIVE direct_pass(_, _, _, _, _)
\* the loop of replace_entity_mentions_for_source over the candidates
direct_pass(s, src, ents, keys, made) ==
  LET ent == Head(ents)
      mention_text == normalize_text(ent.mention_text)
      Add(r) ==
        IF broken(r.s) THEN [s |-> r.s, keys |-> keys, mentions |-> made]
        ELSE IF <<r.id, Lower(mention_text)>> \in keys
        THEN direct_pass(r.s, src, Tail(ents), keys, made)
        ELSE direct_pass(
               [r.s EXCEPT !.new_mentions =
                  Append(@, Mention(src, r.id, mention_text, 10))],
               src, Tail(ents), keys \cup {<<r.id, Lower(mention_text)>>},
               Append(made, Mention(src, r.id, mention_text, 10)))
  IN IF ents = <<>> \/ broken(s) THEN [s |-> s, keys |-> keys, mentions |-> made]
     ELSE Add(upsert_entity(s, ent.entity_type, ent.display_value,
                            ent.normalized_value))

\* a delete that filters by source_id alone
delete_mentions_by_source_id(s, src) ==
  LET Keep(r) == r.source_id # src.source_id
  IN [s EXCEPT !.mentions = SelectSeq(@, Keep)]

\* query(EntityMention).filter(source_type ==, source_id ==).delete()
delete_mentions(s, src) ==
  LET Keep(r) == ~(r.source_type = src.source_type /\ r.source_id = src.source_id)
  IN [s EXCEPT !.mentions = SelectSeq(@, Keep)]

\* replace_entity_mentions_for_source:
\* [s |-> the session after, mentions |-> the list it returns]
replace_entity_mentions_for_source(s, src, context_text, entities) ==
  LET Snowball(d) ==
        LET Both(a) == [s |-> a.s, mentions |-> d.mentions \o a.mentions]
        IN IF broken(d.s) THEN [s |-> d.s, mentions |-> d.mentions]
           ELSE Both(add_person_alias_mentions(d.s, src, truncate(context_text),
                                               d.keys))
  IN IF broken(s) THEN [s |-> s, mentions |-> <<>>]
     ELSE Snowball(direct_pass(delete_mentions(s, src), src, entities, {}, <<>>))

(***************************************************************************)
(* Graph builder (app/graph.py).                                           *)
(***************************************************************************)
\* _upsert_entity_node: [s, id]
upsert_entity_node(s, entity_type, display_value, normalized_value) ==
  LET found == find_entity(s, entity_type, normalized_value)
      id == IF found = 0 THEN Len(s.entities) + 1 ELSE found
  IN [s  |-> IF broken(s) THEN s
             ELSE IF found = 0
             THEN flush([s EXCEPT !.entities =
                           Append(@, [entity_type      |-> entity_type,
                                      display_value    |-> normalize_text(display_value),
                                      normalized_value |-> normalized_value])])
             ELSE IF /\ display_value # ""
                     /\ \/ s.entities[found].display_value = ""
                        \/ s.entities[found].display_value # display_value
                  THEN [s EXCEPT !.entities[found].display_value =
                                    normalize_text(display_value)]
                  ELSE s,
      id |-> id]

\* a binding upsert that adds a row without looking for the one it has
upsert_entity_binding_always_adds(s, entity_id, source_table, source_id) ==
  IF broken(s) THEN s
  ELSE flush([s EXCEPT !.bindings =
                Append(@, [entity_id |-> entity_id, source_table |-> source_table,
                           source_id |-> source_id])])

\* upsert_entity_binding
upsert_entity_binding(s, entity_id, source_table, source_id) ==
  LET hits == {i \in 1..Len(s.bindings) :
                 /\ s.bindings[i].source_table = source_table
                 /\ s.bindings[i].source_id = source_id}
      row == CHOOSE i \in hits : \A j \in hits : i <= j
  IN IF broken(s) THEN s
     ELSE IF hits = {}
     THEN flush([s EXCEPT !.bindings =
                   Append(@, [entity_id |-> entity_id, source_table |-> source_table,
                              source_id |-> source_id])])
     ELSE IF s.bindings[row].entity_id # entity_id
          THEN [s EXCEPT !.bindings[row].entity_id = entity_id]
          ELSE s

\* a lookup with the two endpoints exchanged
find_connection_reversed(s, from_entity_id, to_entity_id, relation_type, evidence_source_type, evidence_source_id) ==
  LET hits == {i \in 1..Len(s.connections) :
                 /\ s.connections[i].from_entity_id = to_entity_id
                 /\ s.connections[i].to_entity_id = from_entity_id
                 /\ s.connections[i].relation_type = relation_type
                 /\ s.connections[i].evidence_source_type = evidence_source_type
                 /\ s.connections[i].evidence_source_id = evidence_source_id}
  IN IF hits = {} THEN 0 ELSE CHOOSE i \in hits : \A j \in hits : i <= j

\* the filter of upsert_entity_connection: the first matching row, 0 if none
find_connection(s, from_entity_id, to_entity_id, relation_type, evidence_source_type, evidence_source_id) ==
  LET hits == {i \in 1..Len(s.connections) :
                 /\ s.connections[i].from_entity_id = from_entity_id
                 /\ s.connections[i].to_entity_id = to_entity_id
                 /\ s.connections[i].relation_type = relation_type
                 /\ s.connections[i].evidence_source_type = evidence_source_type
                 /\ s.connections[i].evidence_source_id = evidence_source_id}
  IN IF hits = {} THEN 0 ELSE CHOOSE i \in hits : \A j \in hits : i <= j

\* an edge upsert that leaves the strength of a row it finds
upsert_entity_connection_keeps_strength(s, from_entity_id, to_entity_id, relation_type, meeting_id, document_id, evidence_source_type, evidence_source_id, strength) ==
  LET found == find_connection(s, from_entity_id, to_entity_id, relation_type,
                               evidence_source_type, evidence_source_id)
  IN IF broken(s) THEN s
     ELSE IF found = 0
     THEN flush([s EXCEPT !.connections =
                   Append(@, [from_entity_id       |-> from_entity_id,
                              to_entity_id         |-> to_entity_id,
                              relation_type        |-> relation_type,
                              meeting_id           |-> meeting_id,
                              document_id          |-> document_id,
                              evidence_source_type |-> evidence_source_type,
                              evidence_source_id   |-> evidence_source_id,
                              strength             |-> strength,
                              evidence_count       |-> 1])])
     ELSE LET row == s.connections[found] IN
          [s EXCEPT !.connections[found] =
             [row EXCEPT !.meeting_id = IF meeting_id # None THEN meeting_id ELSE @,
                         !.document_id = IF document_id # None THEN document_id ELSE @,
                         !.evidence_count = IF @ >= 1 THEN @ ELSE 1]]

\* upsert_entity_connection; strength in tenths
upsert_entity_connection(s, from_entity_id, to_entity_id, relation_type, meeting_id, document_id, evidence_source_type, evidence_source_id, strength) ==
  LET found == find_connection(s, from_entity_id, to_entity_id, relation_type,
                               evidence_source_type, evidence_source_id)
  IN IF broken(s) THEN s
     ELSE IF found = 0
     THEN flush([s EXCEPT !.connections =
                   Append(@, [from_entity_id       |-> from_entity_id,
                              to_entity_id         |-> to_entity_id,
                              relation_type        |-> relation_type,
                              meeting_id           |-> meeting_id,
                              document_id          |-> document_id,
                              evidence_source_type |-> evidence_source_type,
                              evidence_source_id   |-> evidence_source_id,
                              strength             |-> strength,
                              evidence_count       |-> 1])])
     ELSE LET row == s.connections[found] IN
          [s EXCEPT !.connections[found] =
             [row EXCEPT !.meeting_id = IF meeting_id # None THEN meeting_id ELSE @,
                         !.document_id = IF document_id # None THEN document_id ELSE @,
                         !.strength = IF strength # 0 THEN strength
                                      ELSE IF @ # 0 THEN @ ELSE 10,
                         !.evidence_count = IF @ >= 1 THEN @ ELSE 1]]

\* _meeting_entity_values: (label, "meeting:<id>")
meeting_entity_values(meeting) ==
  <<IF normalize_text(meeting.name) # ""
    THEN "Meeting " \o ToString(meeting.meeting_id) \o " - " \o normalize_text(meeting.name)
    ELSE "Meeting " \o ToString(meeting.meeting_id),
    "meeting:" \o ToString(meeting.meeting_id)>>

\* _document_entity_values: (label, "document:<meeting id>:<document id>")
document_entity_values(doc) ==
  <<IF normalize_text(doc.title) # "" THEN normalize_text(doc.title)
    ELSE "Document " \o ToString(doc.document_id),
    "document:" \o ToString(doc.meeting_id) \o ":" \o ToString(doc.document_id)>>

\* ensure_meeting_entity: [s, id]
ensure_meeting_entity(s, meeting) ==
  LET Bind(r) ==
        [s  |-> IF broken(r.s) THEN r.s
                ELSE upsert_entity_binding(r.s, r.id, "meetings", meeting.meeting_id),
         id |-> r.id]
  IN Bind(upsert_entity_node(s, "meeting", meeting_entity_values(meeting)[1],
                             meeting_entity_values(meeting)[2]))

\* a document entity bound under the CivicWeb document id of the row
ensure_document_entity_by_civic_id(s, doc, doc_pk) ==
  LET Bind(r) ==
        [s  |-> IF broken(r.s) THEN r.s
                ELSE upsert_entity_binding(r.s, r.id, "documents", doc.document_id),
         id |-> r.id]
  IN Bind(upsert_entity_node(s, "document", document_entity_values(doc)[1],
                             document_entity_values(doc)[2]))

\* ensure_document_entity: [s, id]; doc_pk is the row's local primary key
ensure_document_entity(s, doc, doc_pk) ==
  LET Bind(r) ==
        [s  |-> IF broken(r.s) THEN r.s
                ELSE upsert_entity_binding(r.s, r.id, "documents", doc_pk),
         id |-> r.id]
  IN Bind(upsert_entity_node(s, "document", document_entity_values(doc)[1],
                             document_entity_values(doc)[2]))

\* a relation chosen by the entity's type alone, whatever the source
meeting_relation_for_mention_by_type(mention, mentioned_entity) ==
  IF mentioned_entity.entity_type = "date"
  THEN "occurs_on"
  ELSE IF mentioned_entity.entity_type \in {"address", "zip_code"}
       THEN "occurs_at"
       ELSE "mentions"

\* _meeting_relation_for_mention
meeting_relation_for_mention(mention, mentioned_entity) ==
  IF mention.source_type = "meeting_metadata" /\ mentioned_entity.entity_type = "date"
  THEN "occurs_on"
  ELSE IF /\ mention.source_type = "meeting_metadata"
          /\ mentioned_entity.entity_type \in {"address", "zip_code"}
       THEN "occurs_at"
       ELSE "mentions"

RECURSIVE rebuild_documents_by_pk(_, _, _, _, _, _)
\* a loop that files each document entity under the document's local id
rebuild_documents_by_pk(s, meeting, meeting_entity, k, by_doc, n) ==
  LET doc == s.documents[k]
      Edge(e) ==
        rebuild_documents_by_pk(
          upsert_entity_connection(e.s, meeting_entity, e.id, "contains_document",
                                   meeting.meeting_id, doc.document_id,
                                   "documents", k, 10),
          meeting, meeting_entity, k + 1,
          [d \in DOMAIN by_doc \cup {k} |-> IF d = k THEN e.id ELSE by_doc[d]],
          n + 1)
  IN IF k > Len(s.documents) \/ broken(s) THEN [s |-> s, by_doc |-> by_doc, n |-> n]
     ELSE IF doc.meeting_id # meeting.meeting_id
     THEN rebuild_documents_by_pk(s, meeting, meeting_entity, k + 1, by_doc, n)
     ELSE Edge(ensure_document_entity(s, doc, k))

RECURSIVE rebuild_documents(_, _, _, _, _, _)
\* the loop over the meeting's documents, in id order:
\* [s, by_doc |-> doc_entity_by_civic_doc_id, n |-> edges written]
rebuild_documents(s, meeting, meeting_entity, k, by_doc, n) ==
  LET doc == s.documents[k]
      Edge(e) ==
        rebuild_documents(
          upsert_entity_connection(e.s, meeting_entity, e.id, "contains_document",
                                   meeting.meeting_id, doc.document_id,
                                   "documents", k, 10),
          meeting, meeting_entity, k + 1,
          [d \in DOMAIN by_doc \cup {doc.document_id} |->
             IF d = doc.document_id THEN e.id ELSE by_doc[d]],
          n + 1)
  IN IF k > Len(s.documents) \/ broken(s) THEN [s |-> s, by_doc |-> by_doc, n |-> n]
     ELSE IF doc.meeting_id # meeting.meeting_id
     THEN rebuild_documents(s, meeting, meeting_entity, k + 1, by_doc, n)
     ELSE Edge(ensure_document_entity(s, doc, k))

RECURSIVE rebuild_mentions(_, _, _, _, _, _)
\* the loop over the meeting's mentions, in id order: [s, n]
rebuild_mentions(s, meeting, meeting_entity, k, by_doc, n) ==
  LET mention == s.mentions[k]
      mentioned_entity == s.entities[mention.entity_id]
      strength == IF mention.confidence # 0 THEN mention.confidence ELSE 10
      has_doc == /\ mention.document_id # None
                 /\ mention.document_id \in DOMAIN by_doc
      \* the document-level edge, when the evidence is attached to a document
      DocumentEdge(s1) ==
        IF has_doc
        THEN upsert_entity_connection(
               s1, by_doc[mention.document_id], mention.entity_id, "mentions",
               meeting.meeting_id, mention.document_id,
               mention.source_type, mention.source_id, strength)
        ELSE s1
  IN IF k > Len(s.mentions) \/ broken(s) THEN [s |-> s, n |-> n]
     ELSE IF \/ mention.meeting_id # meeting.meeting_id
             \/ mention.entity_id > Len(s.entities)
     THEN rebuild_mentions(s, meeting, meeting_entity, k + 1, by_doc, n)
     ELSE rebuild_mentions(
            DocumentEdge(upsert_entity_connection(
                           s, meeting_entity, mention.entity_id,
                           meeting_relation_for_mention(mention, mentioned_entity),
                           meeting.meeting_id, mention.document_id,
                           mention.source_type, mention.source_id, strength)),
            meeting, meeting_entity, k + 1, by_doc,
            n + (IF has_doc THEN 2 ELSE 1))

\* db.get(Meeting, meeting_id): the flushed row, 0 when there is none
get_meeting(s, meeting_id) ==
  LET hits == {i \in 1..Len(s.meetings) : s.meetings[i].meeting_id = meeting_id}
  IN IF hits = {} THEN 0 ELSE CHOOSE i \in hits : TRUE

ZeroStats == [meeting_entities |-> 0, document_entities |-> 0, connections |-> 0]

\* a rebuild that first drops the edges the meeting has
rebuild_graph_for_meeting_from_scratch(s, meeting_id) ==
  LET at == get_meeting(s, meeting_id)
      meeting == s.meetings[at]
      Other(c) == c.meeting_id # meeting_id
      Stats(d, m) ==
        [s |-> m.s,
         stats |-> [meeting_entities |-> 1,
                    document_entities |-> d.n,
                    connections |-> m.n]]
      Mentions(me, d) ==
        Stats(d, rebuild_mentions(d.s, meeting, me.id, 1, d.by_doc, d.n))
      Documents(me) ==
        Mentions(me, rebuild_documents(me.s, meeting, me.id, 1, <<>>, 0))
      Cleared(s1) ==
        Documents(ensure_meeting_entity(
                    [s1 EXCEPT !.connections = SelectSeq(@, Other)], meeting))
  IN IF broken(s) \/ at = 0 THEN [s |-> s, stats |-> ZeroStats]
     ELSE Cleared(flush(s))

\* a rebuild that flushes the session before it looks for the meeting
rebuild_graph_for_meeting_flush_first(s, meeting_id) ==
  LET at == get_meeting(s, meeting_id)
      meeting == s.meetings[at]
      Stats(d, m) ==
        [s |-> m.s,
         stats |-> [meeting_entities |-> 1,
                    document_entities |-> d.n,
                    connections |-> m.n]]
      Mentions(me, d) ==
        Stats(d, rebuild_mentions(d.s, meeting, me.id, 1, d.by_doc, d.n))
      Documents(me) ==
        Mentions(me, rebuild_documents(me.s, meeting, me.id, 1, <<>>, 0))
  IN IF broken(s) THEN [s |-> s, stats |-> ZeroStats]
     ELSE IF at = 0 THEN [s |-> flush(s), stats |-> ZeroStats]
     ELSE Documents(ensure_meeting_entity(flush(s), meeting))

\* rebuild_graph_for_meeting: [s, stats]
rebuild_graph_for_meeting(s, meeting_id) ==
  LET at == get_meeting(s, meeting_id)
      meeting == s.meetings[at]
      Stats(d, m) ==
        [s |-> m.s,
         stats |-> [meeting_entities |-> 1,
                    document_entities |-> d.n,
                    connections |-> m.n]]
      Mentions(me, d) ==
        Stats(d, rebuild_mentions(d.s, meeting, me.id, 1, d.by_doc, d.n))
      Documents(me) ==
        Mentions(me, rebuild_documents(me.s, meeting, me.id, 1, <<>>, 0))
  IN IF broken(s) \/ at = 0 THEN [s |-> s, stats |-> ZeroStats]
     ELSE Documents(ensure_meeting_entity(flush(s), meeting))

(***************************************************************************)
(* Meeting and document rows (app/ingest.py).                              *)
(***************************************************************************)
\* upsert_meeting: db.get() does not see a pending Meeting
upsert_meeting(s, meeting_id, name) ==
  LET at == get_meeting(s, meeting_id) IN
  IF broken(s) THEN s
  ELSE IF at = 0
  THEN [s EXCEPT !.new_meetings = Append(@, [meeting_id |-> meeting_id, name |-> name])]
  ELSE [s EXCEPT !.meetings[at].name = name]

\* query(Document).filter(meeting_id ==, document_id ==).one_or_none(): local id or 0
find_document(s, meeting_id, document_id) ==
  LET hits == {i \in 1..Len(s.documents) :
                 /\ s.documents[i].meeting_id = meeting_id
                 /\ s.documents[i].document_id = document_id}
  IN IF hits = {} THEN 0 ELSE CHOOSE i \in hits : TRUE

\* the document upsert of ingest_meeting: [s, id |-> doc.id, 0 while pending]
upsert_document(s, meeting_id, document_id, title) ==
  LET at == find_document(s, meeting_id, document_id) IN
  [s  |-> IF broken(s) THEN s
          ELSE IF at = 0
          THEN [s EXCEPT !.new_documents =
                  Append(@, [meeting_id |-> meeting_id, document_id |-> document_id,
                             title |-> title])]
          ELSE [s EXCEPT !.documents[at].title = title],
   id |-> at]

\* query(DocumentTextExtraction).filter(meeting_id ==, document_id ==): id or 0
find_document_text(s, meeting_id, document_id) ==
  LET hits == {i \in 1..Len(s.doc_texts) :
                 /\ s.doc_texts[i].meeting_id = meeting_id
                 /\ s.doc_texts[i].document_id = document_id}
  IN IF hits = {} THEN 0 ELSE CHOOSE i \in hits : TRUE

\* upsert_document_text_extraction_from_document; text_excerpt is the text
\* extract_document_text returns, "" when the attachment has no url or the
\* download fails
upsert_document_text_extraction_from_document(s, meeting_id, document_id, text_excerpt) ==
  LET at == find_document_text(s, meeting_id, document_id) IN
  IF broken(s) THEN s
  ELSE IF at = 0
  THEN [s EXCEPT !.new_doc_texts =
          Append(@, [meeting_id |-> meeting_id, document_id |-> document_id,
                     text_excerpt |-> text_excerpt])]
  ELSE [s EXCEPT !.doc_texts[at].text_excerpt = text_excerpt]

\* query(AgendaItem).filter(meeting_id ==, item_key ==).one_or_none(): id or 0
find_item(s, meeting_id, item_key) ==
  LET hits == {i \in 1..Len(s.items) :
                 /\ s.items[i].meeting_id = meeting_id
                 /\ s.items[i].item_key = item_key}
  IN IF hits = {} THEN 0 ELSE CHOOSE i \in hits : TRUE

\* text -> (context_text, entities) -> replace_entity_mentions_for_source(...).s
replace_from_text(s, src, t) ==
  replace_entity_mentions_for_source(s, src, Texts[t],
                                     extract_entities_from_text(Texts[t])).s

\* the body of `for att in it.get("attachments", [])`; no attachment of the
\* model has a title that is_minutes_document() accepts
ingest_attachment(s, meeting_id, att) ==
  LET Content(s3) ==
        replace_from_text(
          s3, Src(meeting_id, "document_content",
                  find_document_text(s3, meeting_id, att.document_id),
                  att.document_id),
          att.text_excerpt)
      \* `if doc_text and doc_text.text_excerpt: db.flush(); ...`
      Excerpt(s2) ==
        IF att.text_excerpt = "" \/ broken(s2) THEN s2 ELSE Content(flush(s2))
      \* source_id=doc.id if getattr(doc, "id", None) is not None else doc.document_id
      Title(d) ==
        Excerpt(replace_from_text(
                  upsert_document_text_extraction_from_document(
                    d.s, meeting_id, att.document_id, att.text_excerpt),
                  Src(meeting_id, "document_title",
                      IF d.id # None THEN d.id ELSE att.document_id,
                      att.document_id),
                  att.title))
  IN Title(upsert_document(s, meeting_id, att.document_id, att.title))

RECURSIVE ingest_attachments(_, _, _)
ingest_attachments(s, meeting_id, attachments) ==
  IF attachments = <<>> \/ broken(s) THEN s
  ELSE ingest_attachments(ingest_attachment(s, meeting_id, Head(attachments)),
                          meeting_id, Tail(attachments))

RECURSIVE ingest_items(_, _, _)
\* `for it in parsed_items`
ingest_items(s, meeting_id, parsed_items) ==
  IF parsed_items = <<>> \/ broken(s) THEN s
  ELSE LET it == Head(parsed_items)
           at == find_item(s, meeting_id, it.item_key)
           s1 == flush(IF at = 0
                       THEN [s EXCEPT !.items =
                               Append(@, [meeting_id |-> meeting_id,
                                          item_key |-> it.item_key,
                                          title |-> it.title])]
                       ELSE [s EXCEPT !.items[at].title = it.title])
           item_id == IF at = 0 THEN Len(s.items) + 1 ELSE at
           s2 == replace_from_text(
                   s1, Src(meeting_id, "agenda_item_title", item_id, None), it.title)
       IN ingest_items(ingest_attachments(s2, meeting_id, it.attachments),
                       meeting_id, Tail(parsed_items))

\* ingest_meeting over what CivicWeb returns for the meeting; `fails` names
\* the collaborator call that raises, "" when none does.
\* [s |-> the session it leaves, committed |-> whether db.commit() ran,
\*  status |-> the status it returns, "error" when it raised]
ingest_meeting(s, meeting_id, meeting_data, fails) ==
  LET Finish(s4) ==
        IF broken(s4) THEN [s |-> s4, committed |-> FALSE, status |-> "error"]
        ELSE [s |-> s4, committed |-> TRUE,
              status |-> IF meeting_data.agenda_html THEN "ok" ELSE "no_agenda_html"]
      Documents(s2) ==
        IF fails = "get_meeting_documents" \/ broken(s2)
        THEN [s |-> s2, committed |-> FALSE, status |-> "error"]
        ELSE Finish(flush(rebuild_graph_for_meeting(
                            IF meeting_data.agenda_html
                            THEN flush(ingest_items(s2, meeting_id,
                                                    meeting_data.parsed_items))
                            ELSE s2,
                            meeting_id).s))
  IN IF fails = "get_meeting_data"
     THEN [s |-> s, committed |-> FALSE, status |-> "error"]
     ELSE Documents(replace_from_text(
                      upsert_meeting(s, meeting_id, meeting_data.Name),
                      Src(meeting_id, "meeting_metadata", meeting_id, None),
                      meeting_data.Name))

(***************************************************************************)
(* State: one session over the database, as a test or a request handler    *)
(* drives it.                                                              *)
(***************************************************************************)
VARIABLES
  session,    \* the open session: flushed rows, pending objects, error
  committed,  \* the rows of the last commit
  last,       \* the latest ledger or graph call and what it returned
  race,       \* two ingest workers on one database, each in its own transaction
  jobs,       \* the job registry of jobs.py and the requests that create jobs
  cache,      \* the meeting_range_discovery_cache table and an ingest_range run
  now,        \* the wall clock, in ticks of half a second
  call        \* a call of a function on its own: its arguments and its result

vars == <<session, committed, last, race, jobs, cache, now, call>>

\* what the ledger, the graph builder and ingest_meeting leave alone
service == <<jobs, cache, now, call>>

NoCall == [op |-> "none"]

NoSource == Src(0, "", 0, None)

Idle ==
  [op |-> "none", src |-> NoSource, meeting |-> 0, text |-> "", prev_text |-> "none",
   made |-> <<>>, before |-> {}, known |-> {}, stale |-> FALSE,
   again |-> FALSE, count |-> 0, status |-> "", db |-> EmptyDb, done |-> {},
   calls |-> 0]

IsSource(r, src) == r.source_type = src.source_type /\ r.source_id = src.source_id

\* the mentions a session holds for a source: flushed rows, then pending objects
SourceMentions(s, src) ==
  LET Of(r) == IsSource(r, src) IN SelectSeq(s.mentions \o s.new_mentions, Of)

Triple(r) == <<r.entity_id, r.mention_text, r.confidence>>

Triples(rows) == {Triple(rows[i]) : i \in 1..Len(rows)}

\* a failed flush rolls the transaction back to the last commit
Settle(s) ==
  IF broken(s) THEN [SessionLocal(committed) EXCEPT !.error = s.error] ELSE s

WithinBounds(s) ==
  /\ Len(s.new_mentions) <= MaxPending
  /\ Len(s.new_aliases) <= MaxPending
  /\ Len(s.new_meetings) <= MaxPending
  /\ Len(s.new_documents) <= MaxPending
  /\ Len(s.new_doc_texts) <= MaxPending

Workers == {1, 2}

IdleWorker ==
  [meeting |-> 0, at |-> "idle", i |-> 0, own |-> {}, gone |-> {}, queue |-> <<>>,
   deleted |-> FALSE, result |-> ""]

NoRace == [rows |-> {}, worker |-> [w \in Workers |-> IdleWorker]]

(***************************************************************************)
(* The job registry of jobs.py and the admission control of main.py.  A    *)
(* POST /ingest/range/job request runs in a thread of the server's pool;   *)
(* every call into jobs.py takes the registry's lock for itself only.      *)
(***************************************************************************)
INGEST_JOB_COOLDOWN_SECONDS == 10

MAX_ACTIVE_INGEST_JOBS == 1

\* clock ticks per second: time.time() and datetime.now() are finer than
\* the whole seconds that _utcnow_iso keeps
Second == 2

\* the jobs the registry may come to hold
MaxJobs == 3

\* the last clock value of the runs about jobs
JobHorizon == 42

Clients == {1, 2}

IdleClient == [at |-> "idle", response |-> ""]

NoJobs == [registry |-> <<>>, request |-> [c \in Clients |-> IdleClient]]

\* the jobs of the registry that are queued or running
count_active_jobs(registry) ==
  Cardinality({j \in 1..Len(registry) : registry[j].status \in {"queued", "running"}})

\* the latest created_at of the registry, None when it holds no job
most_recent_job_created_at(registry) ==
  IF registry = <<>> THEN None
  ELSE CHOOSE t \in {registry[j].created_at : j \in 1..Len(registry)} :
         \A j \in 1..Len(registry) : registry[j].created_at <= t

\* _jobs[job_id] = {"status": "queued", "created_at": _now(), ...}
create_ingest_job(registry, t) ==
  Append(registry, [status |-> "queued", created_at |-> t, thread |-> FALSE])

\* the requests between their admission and their response
in_flight == Cardinality({c \in Clients : jobs.request[c].at # "idle"})

\* POST /ingest/range/job: _validate_ingest_range_request, then the first
\* check of _enforce_ingest_job_throttle
PostRangeJob(c, valid) ==
  /\ jobs.request[c].at = "idle"
  /\ Len(jobs.registry) + in_flight < MaxJobs
  /\ jobs' = [jobs EXCEPT !.request[c] =
                IF ~valid THEN [IdleClient EXCEPT !.response = "400"]
                ELSE IF count_active_jobs(jobs.registry) >= MAX_ACTIVE_INGEST_JOBS
                THEN [IdleClient EXCEPT !.response = "429 ingest_job_limit_reached"]
                ELSE [at |-> "latest", response |-> ""]]
  /\ UNCHANGED <<session, committed, last, race, cache, now, call>>

\* the second check of _enforce_ingest_job_throttle
CheckCooldown(c) ==
  LET latest == most_recent_job_created_at(jobs.registry)
  IN /\ jobs.request[c].at = "latest"
     /\ jobs' = [jobs EXCEPT !.request[c] =
                   IF latest # None /\ now - latest < INGEST_JOB_COOLDOWN_SECONDS * Second
                   THEN [IdleClient EXCEPT !.response = "429 ingest_job_cooldown_active"]
                   ELSE [at |-> "create", response |-> ""]]
     /\ UNCHANGED <<session, committed, last, race, cache, now, call>>

\* job_id = create_ingest_job({...})
CreateJob(c) ==
  /\ jobs.request[c].at = "create"
  /\ jobs' = [registry |-> create_ingest_job(jobs.registry, now),
              request |-> [jobs.request EXCEPT ![c] =
                             [at |-> "start", response |-> ""]]]
  /\ UNCHANGED <<session, committed, last, race, cache, now, call>>

\* start_ingest_job(job_id); return {"job_id": job_id, "status": "queued"}:
\* the job the request created is the latest without a thread
StartJob(c) ==
  LET mine == {j \in 1..Len(jobs.registry) : ~jobs.registry[j].thread}
  IN /\ jobs.request[c].at = "start"
     /\ \E j \in mine :
          jobs' = [registry |-> [jobs.registry EXCEPT ![j].thread = TRUE],
                   request |-> [jobs.request EXCEPT ![c] =
                                  [IdleClient EXCEPT !.response = "queued"]]]
     /\ UNCHANGED <<session, committed, last, race, cache, now, call>>

\* _run_ingest_job: _update_job(job_id, status="running", ...)
RunJob(j) ==
  /\ jobs.registry[j].thread
  /\ jobs.registry[j].status = "queued"
  /\ jobs' = [jobs EXCEPT !.registry[j].status = "running"]
  /\ UNCHANGED <<session, committed, last, race, cache, now, call>>

\* _run_ingest_job: ingest_range returns or raises, and the job's status
\* becomes completed or failed
FinishJob(j, raised) ==
  /\ jobs.registry[j].status = "running"
  /\ jobs' = [jobs EXCEPT !.registry[j].status =
                IF raised THEN "failed" ELSE "completed"]
  /\ UNCHANGED <<session, committed, last, race, cache, now, call>>

\* time passes
Tick(d, horizon) ==
  /\ now + d <= horizon
  /\ now' = now + d
  /\ UNCHANGED <<session, committed, last, race, jobs, cache, call>>

(***************************************************************************)
(* The discovery cache of ingest_range: one row of the table               *)
(* meeting_range_discovery_cache per (from_date, to_date, crawl,           *)
(* chunk_days).  last_fetched_at is a time in clock ticks; Blank is the    *)
(* column's default "" and Garbled a text that is not an ISO time.         *)
(***************************************************************************)
Minute == 60 * Second

Blank == 0

Garbled == -1

\* datetime.now(timezone.utc).replace(microsecond=0).isoformat()
utcnow_iso(t) == (t \div Second) * Second

\* json.dumps(meeting_ids) / the text of a row that json.loads rejects
json_dumps(meeting_ids) == [text |-> "list", ids |-> meeting_ids]

GarbledJson == [text |-> "garbled", ids |-> <<>>]

\* db.query(MeetingRangeDiscoveryCache).filter(<key>).one_or_none(): the
\* position of the key's row, 0 if there is none
get_range_discovery_cache(rows, key) ==
  LET hits == {i \in 1..Len(rows) : rows[i].key = key}
  IN IF hits = {} THEN 0 ELSE CHOOSE i \in hits : TRUE

\* a read that takes a row of exactly the ttl's age for stale
read_cached_meeting_ids_stale_at_ttl(rows, key, cache_ttl_minutes, t) ==
  LET i == get_range_discovery_cache(rows, key)
      ttl == IF cache_ttl_minutes > 0 THEN cache_ttl_minutes ELSE 0
      Miss == [hit |-> FALSE, ids |-> <<>>]
  IN IF i = 0 THEN Miss
     ELSE IF rows[i].last_fetched_at = Blank THEN Miss
     ELSE IF rows[i].last_fetched_at = Garbled THEN Miss
     ELSE IF t - rows[i].last_fetched_at >= ttl * Minute THEN Miss
     ELSE IF rows[i].meeting_ids_json.text # "list" THEN Miss
     ELSE [hit |-> TRUE, ids |-> rows[i].meeting_ids_json.ids]

\* _read_cached_meeting_ids at time t: the cached ids, or a miss when there
\* is no row, no last_fetched_at, an unreadable one, a row older than the
\* ttl, or ids that json.loads rejects.  (last_used_at, which nothing reads,
\* is left out.)
read_cached_meeting_ids(rows, key, cache_ttl_minutes, t) ==
  LET i == get_range_discovery_cache(rows, key)
      ttl == IF cache_ttl_minutes > 0 THEN cache_ttl_minutes ELSE 0
      Miss == [hit |-> FALSE, ids |-> <<>>]
  IN IF i = 0 THEN Miss
     ELSE IF rows[i].last_fetched_at = Blank THEN Miss
     ELSE IF rows[i].last_fetched_at = Garbled THEN Miss
     ELSE IF t - rows[i].last_fetched_at > ttl * Minute THEN Miss
     ELSE IF rows[i].meeting_ids_json.text # "list" THEN Miss
     ELSE [hit |-> TRUE, ids |-> rows[i].meeting_ids_json.ids]

\* _write_cached_meeting_ids at time t: the key's row, added if missing,
\* takes the ids and the time; db.flush()
write_cached_meeting_ids(rows, key, meeting_ids, t) ==
  LET i == get_range_discovery_cache(rows, key)
      row == [key |-> key, meeting_ids_json |-> json_dumps(meeting_ids),
              last_fetched_at |-> utcnow_iso(t)]
  IN IF i = 0 THEN Append(rows, row) ELSE [rows EXCEPT ![i] = row]

\* the ids of a listing of cw.list_meetings, each once, in the order of
\* their first occurrence; an entry whose "Id" is not an int is skipped
RECURSIVE first_ids(_, _)
first_ids(meetings, ids) ==
  IF meetings = <<>> THEN ids
  ELSE LET mid == Head(meetings)
           seen == {ids[k] : k \in 1..Len(ids)}
       IN first_ids(Tail(meetings),
                    IF mid # None /\ mid \notin seen THEN Append(ids, mid) ELSE ids)

\* ids[:limit], the slice without the max
first_n_slice(ids, limit) ==
  LET n == IF limit < 0 THEN Len(ids) + limit ELSE limit
  IN SubSeq(ids, 1, IF n < 0 THEN 0 ELSE IF n < Len(ids) THEN n ELSE Len(ids))

\* ids[: max(limit, 0)]
first_n(ids, limit) ==
  LET n == IF limit < 0 THEN 0 ELSE IF limit < Len(ids) THEN limit ELSE Len(ids)
  IN SubSeq(ids, 1, n)

IdleRun ==
  [at |-> "idle", key |-> <<>>, use_recent_cache |-> FALSE, cache_ttl_minutes |-> 0,
   listing |-> <<>>, before |-> <<>>, started |-> 0, cache_hit |-> FALSE,
   discoveries |-> 0, found |-> <<>>, ids |-> <<>>, i |-> 0, limit |-> 0,
   results |-> <<>>, succeeded |-> 0, failed |-> 0, returned |-> FALSE]

NoCache == [rows |-> <<>>, run |-> IdleRun]

(***************************************************************************)
(* GET /entities/{id}/connections (api/routes.py) with its topic filter.   *)
(* A text is a sequence of lower-case words; a table is the sequence of    *)
(* its rows by primary key.  The evidence source types are the constants   *)
(* the ingestion writes, which normalize_text leaves as they are.          *)
(***************************************************************************)
\* classify_topics for the topics zoning (\bzoning\b, \brezone\b) and
\* public_hearings (\bpublic hearing\b)
classify_topics(words) ==
  {t \in {"zoning", "public_hearings"} :
     IF t = "zoning"
     THEN \E i \in 1..Len(words) : words[i] \in {"zoning", "rezone"}
     ELSE \E i \in 1..(Len(words) - 1) : words[i] = "public" /\ words[i + 1] = "hearing"}

\* db.get(Table, row_id) finds a row
db_has(rows, row_id) == row_id \in 1..Len(rows)

\* _mention_source_row: the id of the latest mention of the source, 0 if none
mention_source_row(db, source_type, source_id) ==
  LET hits == {i \in 1..Len(db.mentions) :
                 /\ db.mentions[i].source_type = source_type
                 /\ db.mentions[i].source_id = source_id}
  IN IF hits = {} THEN 0 ELSE CHOOSE i \in hits : \A j \in hits : j <= i

\* the text _edge_matches_topic resolves for an evidence source: the parts
\* that are not empty, joined by blanks
source_text(db, source_type, source_id) ==
  LET mention == mention_source_row(db, source_type, source_id)
      of_mention ==
        IF source_type # "" /\ source_id > 0 /\ source_type # "documents" /\ mention # 0
        THEN db.mentions[mention].context_text \o db.mentions[mention].mention_text
        ELSE <<>>
      of_document(doc) ==
        IF doc.agenda_item_id # None /\ db_has(db.agenda_items, doc.agenda_item_id)
        THEN doc.title \o db.agenda_items[doc.agenda_item_id].title
        ELSE doc.title
      of_row ==
        IF source_id <= 0 THEN <<>>
        ELSE IF source_type \in {"agenda_item_title", "agenda_items"}
        THEN IF db_has(db.agenda_items, source_id)
             THEN db.agenda_items[source_id].title \o db.agenda_items[source_id].section
                  \o db.agenda_items[source_id].item_key
             ELSE <<>>
        ELSE IF source_type \in {"document_title", "documents"}
        THEN IF db_has(db.documents, source_id) THEN of_document(db.documents[source_id])
             ELSE <<>>
        ELSE IF source_type = "document_content"
        THEN IF db_has(db.extractions, source_id)
             THEN db.extractions[source_id].title \o db.extractions[source_id].text_excerpt
             ELSE <<>>
        ELSE IF source_type = "minutes_excerpt"
        THEN IF db_has(db.minutes, source_id)
             THEN db.minutes[source_id].title \o db.minutes[source_id].text_excerpt
             ELSE <<>>
        ELSE IF source_type = "meeting_metadata"
        THEN IF db_has(db.meetings, source_id)
             THEN db.meetings[source_id].name \o db.meetings[source_id].location
                  \o db.meetings[source_id].date \o db.meetings[source_id].time
             ELSE <<>>
        ELSE <<>>
  IN of_mention \o of_row

\* a cache key that leaves the source type out
cache_key_by_id(source_type, source_id) ==
  <<"", source_id>>

\* cache_key = (source_type, source_id)
cache_key(source_type, source_id) ==
  <<source_type, source_id>>

\* the verdict of _edge_matches_topic without its cache
topic_verdict(db, source_type, source_id, topic_norm) ==
  /\ source_text(db, source_type, source_id) # <<>>
  /\ topic_norm \in classify_topics(source_text(db, source_type, source_id))

RECURSIVE filter_by_topic(_, _, _, _, _)
\* edges = [edge for edge in edges if _edge_matches_topic(edge)], with the
\* source_topic_cache that the calls share
filter_by_topic(db, edges, topic_norm, source_topic_cache, kept) ==
  IF edges = <<>> THEN kept
  ELSE LET edge == Head(edges)
           key == cache_key(edge.evidence_source_type, edge.evidence_source_id)
           Rest(verdict) ==
             filter_by_topic(
               db, Tail(edges), topic_norm,
               [k \in DOMAIN source_topic_cache \cup {key} |->
                  IF k \in DOMAIN source_topic_cache THEN source_topic_cache[k]
                  ELSE verdict],
               IF verdict THEN Append(kept, edge) ELSE kept)
       IN Rest(IF key \in DOMAIN source_topic_cache THEN source_topic_cache[key]
               ELSE topic_verdict(db, edge.evidence_source_type,
                                  edge.evidence_source_id, topic_norm))

\* the bucket key of an edge: (other entity, relation type, direction)
bucket_key(edge, entity_id) ==
  IF edge.from_entity_id = entity_id
  THEN <<edge.to_entity_id, edge.relation_type, "outgoing">>
  ELSE <<edge.from_entity_id, edge.relation_type, "incoming">>

RECURSIVE fill_buckets(_, _, _)
\* the loop that counts the edges into their buckets
fill_buckets(edges, entity_id, buckets) ==
  IF edges = <<>> THEN buckets
  ELSE LET edge == Head(edges)
           key == bucket_key(edge, entity_id)
           old == IF key \in DOMAIN buckets THEN buckets[key]
                  ELSE [edge_count |-> 0, evidence_count |-> 0, meeting_ids |-> {}]
           new == [edge_count |-> old.edge_count + 1,
                   evidence_count |-> old.evidence_count
                                      + (IF edge.evidence_count > 1 THEN edge.evidence_count ELSE 1),
                   meeting_ids |-> IF edge.meeting_id # None
                                   THEN old.meeting_ids \cup {edge.meeting_id}
                                   ELSE old.meeting_ids]
       IN fill_buckets(Tail(edges), entity_id,
                       [k \in DOMAIN buckets \cup {key} |-> IF k = key THEN new ELSE buckets[k]])

RECURSIVE edges_of(_, _, _)
\* the EntityConnection rows that touch the entity, latest first
edges_of(connections, entity_id, k) ==
  IF k = 0 THEN <<>>
  ELSE IF entity_id \in {connections[k].from_entity_id, connections[k].to_entity_id}
  THEN <<connections[k]>> \o edges_of(connections, entity_id, k - 1)
  ELSE edges_of(connections, entity_id, k - 1)

\* get_entity_connections for a limit that no response reaches: the rows of
\* the response (their order, the bindings and the metadata left out)
get_entity_connections(db, entity_id, topic, entity_type) ==
  LET edges == edges_of(db.connections, entity_id, Len(db.connections))
      Out(buckets) ==
        {[entity_id |-> key[1], relation_type |-> key[2], direction |-> key[3],
          edge_count |-> buckets[key].edge_count,
          evidence_count |-> buckets[key].evidence_count,
          shared_meeting_count |-> Cardinality(buckets[key].meeting_ids)] :
           key \in {k \in DOMAIN buckets :
                      /\ db_has(db.entities, k[1])
                      /\ entity_type = "" \/ db.entities[k[1]].entity_type = entity_type}}
      Counted(kept) == Out(fill_buckets(kept, entity_id, <<>>))
  IN IF ~db_has(db.entities, entity_id) \/ edges = <<>> THEN {}
     ELSE IF topic # "" THEN Counted(filter_by_topic(db, edges, topic, <<>>, <<>>))
     ELSE Counted(edges)

Init ==
  /\ session = SessionLocal(EmptyDb)
  /\ committed = EmptyDb
  /\ last = Idle
  /\ race = NoRace
  /\ jobs = NoJobs
  /\ cache = NoCache
  /\ now = Second
  /\ call = NoCall

\* replace_entity_mentions_for_source(db, ..., context_text=text,
\*                                    entities=extract_entities_from_text(text))
Replace(src, t) ==
  LET Pending(row) == IsSource(row, src)
      Returned(r) ==
        /\ WithinBounds(r.s)
        /\ session' = Settle(r.s)
        /\ last' = [Idle EXCEPT
                      !.op = "replace", !.src = src, !.text = t,
                      !.prev_text = IF last.op = "replace" /\ last.src = src
                                    THEN last.text ELSE "none",
                      !.made = r.mentions,
                      !.before = Triples(SourceMentions(session, src)),
                      !.stale = (SelectSeq(session.new_mentions, Pending) # <<>>),
                      !.known = {session.aliases[i].entity_id :
                                   i \in 1..Len(session.aliases)}]
  IN /\ ~broken(session)
     /\ Returned(replace_entity_mentions_for_source(
                   session, src, Texts[t], extract_entities_from_text(Texts[t])))
     /\ UNCHANGED <<committed, race, service>>

\* rebuild_graph_for_meeting(db, meeting_id)
Rebuild(m) ==
  /\ ~broken(session)
  /\ session' = Settle(rebuild_graph_for_meeting(session, m).s)
  /\ last' = [Idle EXCEPT
                !.op = "rebuild", !.meeting = m,
                !.again = (last.op = "rebuild" /\ last.meeting = m),
                !.count = Len(session.connections)]
  /\ UNCHANGED <<committed, race, service>>

\* db.flush()
Flush ==
  /\ ~broken(session)
  /\ session' = Settle(flush(session))
  /\ UNCHANGED <<committed, last, race, service>>

\* db.commit()
Commit ==
  LET Flushed(s) ==
        /\ session' = Settle(s)
        /\ committed' = IF broken(s) THEN committed ELSE Rows(s)
  IN /\ ~broken(session)
     /\ Flushed(flush(session))
     /\ UNCHANGED <<last, race, service>>

\* db.close(): what was not committed is gone; the next request opens a new session
Close ==
  /\ session' = SessionLocal(committed)
  /\ last' = Idle
  /\ UNCHANGED <<committed, race, service>>

(***************************************************************************)
(* Spec: the mention ledger, driven as tests/test_entities_api.py drives   *)
(* it, over two sources of two meetings.                                   *)
(***************************************************************************)
LedgerSources ==
  { Src(1, "meeting_metadata", 1, None), Src(2, "minutes_excerpt", 1, 7) }

LedgerTexts == {"plain", "mayor", "longplain"}

Next ==
  \/ \E src \in LedgerSources, t \in LedgerTexts : Replace(src, t)
  \/ Flush
  \/ Commit
  \/ Close

Spec == Init /\ [][Next]_vars

(***************************************************************************)
(* SpecGraph: ledger and graph builder over two meetings whose rows exist, *)
(* the second with one attached document (the rows the graph test adds     *)
(* before it calls the ledger).                                            *)
(***************************************************************************)
GraphDb ==
  [EmptyDb EXCEPT
     !.meetings = <<[meeting_id |-> 1, name |-> "City  Council"],
                    [meeting_id |-> 2, name |-> "City  Council"]>>,
     !.documents = <<[meeting_id |-> 2, document_id |-> 7, title |-> "plain"]>>]

GraphInputs ==
  { <<Src(2, "meeting_metadata", 2, None), "mayordate">>,
    <<Src(2, "minutes_excerpt", 1, 7), "plain">>,
    <<Src(2, "minutes_excerpt", 1, 7), "date">>,
    <<Src(2, "minutes_excerpt", 1, 7), "longplain">> }

InitGraph ==
  /\ session = SessionLocal(GraphDb)
  /\ committed = GraphDb
  /\ last = Idle
  /\ race = NoRace
  /\ jobs = NoJobs
  /\ cache = NoCache
  /\ now = Second
  /\ call = NoCall

NextGraph ==
  \/ \E in \in GraphInputs : Replace(in[1], in[2])
  \/ \E m \in {1, 2} : Rebuild(m)
  \/ Flush
  \/ Close

SpecGraph == InitGraph /\ [][NextGraph]_vars

(***************************************************************************)
(* SpecEdges: the ledger and the graph builder over sources of meeting 2   *)
(* whose text changes between rebuilds: its metadata, the minutes of its   *)
(* document 7, and minutes filed under a document id (9) for which the     *)
(* meeting has no Document row.                                            *)
(***************************************************************************)
EdgeInputs ==
  { <<Src(2, "meeting_metadata", 2, None), "datezip">>,
    <<Src(2, "meeting_metadata", 2, None), "">>,
    <<Src(2, "minutes_excerpt", 1, 7), "datezip">>,
    <<Src(2, "minutes_excerpt", 2, 9), "date">> }

NextEdges ==
  \/ \E in \in EdgeInputs : Replace(in[1], in[2])
  \/ \E m \in {1, 2} : Rebuild(m)
  \/ Flush
  \/ Close

SpecEdges == InitGraph /\ [][NextEdges]_vars

(***************************************************************************)
(* SpecTopics: GET /entities/{id}/connections over a database with the     *)
(* graph of one meeting: the meeting entity (1), a person (2), a date (3)  *)
(* and a document entity (4), and five edges whose evidence is the         *)
(* meeting's metadata, a minutes excerpt or the document row.  The texts   *)
(* of the evidence vary.                                                   *)
(***************************************************************************)
Edge(from_entity_id, to_entity_id, relation_type, evidence_source_type, evidence_source_id, evidence_count) ==
  [from_entity_id |-> from_entity_id, to_entity_id |-> to_entity_id,
   relation_type |-> relation_type, meeting_id |-> 1, document_id |-> None,
   evidence_source_type |-> evidence_source_type,
   evidence_source_id |-> evidence_source_id, evidence_count |-> evidence_count]

TopicDb(metadata_text, meeting_name, excerpt_text, minutes_text, title, agenda_item_id) ==
  [entities |-> <<[entity_type |-> "meeting"], [entity_type |-> "person"],
                  [entity_type |-> "date"], [entity_type |-> "document"]>>,
   connections |->
     <<Edge(1, 4, "contains_document", "documents", 1, 1),
       Edge(1, 2, "mentions", "meeting_metadata", 1, 2),
       Edge(1, 2, "mentions", "minutes_excerpt", 1, 1),
       Edge(4, 2, "mentions", "minutes_excerpt", 1, 1),
       Edge(1, 3, "occurs_on", "meeting_metadata", 1, 0)>>,
   mentions |->
     <<[source_type |-> "meeting_metadata", source_id |-> 1,
        context_text |-> metadata_text, mention_text |-> <<"jane">>],
       [source_type |-> "minutes_excerpt", source_id |-> 1,
        context_text |-> excerpt_text, mention_text |-> <<"jane">>]>>,
   meetings |-> <<[name |-> meeting_name, location |-> <<>>, date |-> <<>>,
                   time |-> <<>>]>>,
   minutes |-> <<[title |-> <<>>, text_excerpt |-> minutes_text]>>,
   documents |-> <<[title |-> title, agenda_item_id |-> agenda_item_id]>>,
   agenda_items |-> <<[title |-> <<"hearing">>, section |-> <<>>, item_key |-> <<"6">>]>>,
   extractions |-> <<>>]

TopicTexts == { <<>>, <<"zoning">>, <<"public">>, <<"public", "hearing">> }

TopicDbs ==
  { TopicDb(metadata_text, meeting_name, excerpt_text, minutes_text, title, agenda_item_id) :
      metadata_text \in {<<>>, <<"zoning">>}, meeting_name \in TopicTexts,
      excerpt_text \in {<<>>, <<"zoning">>}, minutes_text \in TopicTexts,
      title \in TopicTexts, agenda_item_id \in {None, 1} }

InitTopics ==
  /\ session = SessionLocal(EmptyDb)
  /\ committed = EmptyDb
  /\ last = Idle
  /\ race = NoRace
  /\ jobs = NoJobs
  /\ cache = NoCache
  /\ now = Second
  /\ call \in {[op |-> "idle", db |-> db] : db \in TopicDbs}

\* GET /entities/{entity_id}/connections?topic=&entity_type=
GetConnections(entity_id, topic, entity_type) ==
  /\ call' = [op |-> "connections", db |-> call.db, entity_id |-> entity_id,
              topic |-> topic, entity_type |-> entity_type,
              response |-> get_entity_connections(call.db, entity_id, topic, entity_type)]
  /\ UNCHANGED <<session, committed, last, race, jobs, cache, now>>

NextTopics ==
  \E entity_id \in {1, 2}, topic \in {"", "zoning", "public_hearings", "Zoning"}, entity_type \in {"", "person"} : GetConnections(entity_id, topic, entity_type)

SpecTopics == InitTopics /\ [][NextTopics]_vars

(***************************************************************************)
(* SpecUpsert: upsert_entity_connection called on its own, on a table that *)
(* earlier calls filled: edges from entity 1 to entity 2 or 3, with a      *)
(* strength of 0, 0.7 or 1.0 and with or without a document id.            *)
(***************************************************************************)
InitUpsert ==
  /\ session = SessionLocal(EmptyDb)
  /\ committed = EmptyDb
  /\ last = Idle
  /\ race = NoRace
  /\ jobs = NoJobs
  /\ cache = NoCache
  /\ now = Second
  /\ call = [op |-> "idle", s |-> SessionLocal(EmptyDb)]

\* upsert_entity_connection(db, from_entity_id=1, to_entity_id=..., ...)
UpsertConnection(to_entity_id, document_id, strength) ==
  /\ call' = [op |-> "upsert_connection",
              before |-> call.s.connections,
              to_entity_id |-> to_entity_id,
              document_id |-> document_id,
              strength |-> strength,
              s |-> upsert_entity_connection(call.s, 1, to_entity_id, "mentions", 1,
                                             document_id, "minutes_excerpt", 1, strength)]
  /\ UNCHANGED <<session, committed, last, race, jobs, cache, now>>

NextUpsert ==
  \E to_entity_id \in {2, 3}, document_id \in {None, 7}, strength \in {0, 7, 10} : UpsertConnection(to_entity_id, document_id, strength)

SpecUpsert == InitUpsert /\ [][NextUpsert]_vars

(***************************************************************************)
(* SpecCrawl: _collect_meeting_ids (app/ingest.py), one step per turn of   *)
(* its loop.  A date is its proleptic ordinal (date.toordinal()); the      *)
(* meetings CivicWeb lists are given per day of the first days of 2026.    *)
(***************************************************************************)
\* date.max.toordinal(): 9999-12-31
DateMax == 3652059

\* the largest number of days a timedelta holds
MaxTimedeltaDays == 999999999

\* date(2026, 1, 1).toordinal()
CrawlStart == 739617

\* the ordinal that stands for "OverflowError: date value out of range"
Overflow == 0

\* d + timedelta(days=n) for n >= 0
add_days(d, n) ==
  IF n > MaxTimedeltaDays \/ d + n > DateMax THEN Overflow ELSE d + n

RECURSIVE list_meetings(_, _, _)
\* cw.list_meetings(date_from, date_to): the "Id" values of the meetings of
\* the days date_from..date_to, in the order of the days
list_meetings(calendar, date_from, date_to) ==
  IF date_from > date_to THEN <<>>
  ELSE (IF date_from - CrawlStart + 1 \in 1..Len(calendar)
        THEN calendar[date_from - CrawlStart + 1] ELSE <<>>)
       \o list_meetings(calendar, date_from + 1, date_to)

CrawlDays == {CrawlStart + k : k \in 0..4}

CrawlChunks == {0, 1, 2, 3, 31, 4000000}

\* "Id" values per day; None is an "Id" that is not an int
CrawlCalendars ==
  { <<<<1>>, <<>>, <<None, 2>>, <<1>>, <<3>>>>,
    <<<<>>, <<2, 2>>, <<>>, <<>>, <<1>>>> }

InitCrawl ==
  /\ session = SessionLocal(EmptyDb)
  /\ committed = EmptyDb
  /\ last = Idle
  /\ race = NoRace
  /\ jobs = NoJobs
  /\ cache = NoCache
  /\ now = Second
  /\ call \in {[op |-> "collect", at |-> "called", from_date |-> from_date,
                to_date |-> to_date, chunk_days |-> chunk_days,
                calendar |-> calendar, cursor |-> 0, calls |-> <<>>,
                ids |-> <<>>, raised |-> ""] :
                 from_date \in CrawlDays, to_date \in CrawlDays,
                 chunk_days \in CrawlChunks, calendar \in CrawlCalendars}

\* the two checks before the loop; cursor = start
CollectStart ==
  /\ call.op = "collect"
  /\ call.at = "called"
  /\ call' = IF call.to_date < call.from_date \/ call.chunk_days < 1
             THEN [call EXCEPT !.at = "raised", !.raised = "ValueError"]
             ELSE [call EXCEPT !.at = "loop", !.cursor = call.from_date]
  /\ UNCHANGED <<session, committed, last, race, jobs, cache, now>>

\* one turn of `while cursor <= end`
CollectWindow ==
  LET reach == add_days(call.cursor, call.chunk_days - 1)
      window_end == IF reach < call.to_date THEN reach ELSE call.to_date
      Listed(meetings) ==
        [call EXCEPT !.calls = Append(@, <<call.cursor, window_end>>),
                     !.ids = first_ids(meetings, @),
                     !.cursor = add_days(window_end, 1),
                     !.at = IF add_days(window_end, 1) = Overflow THEN "raised" ELSE "loop",
                     !.raised = IF add_days(window_end, 1) = Overflow
                                THEN "OverflowError" ELSE ""]
  IN /\ call.op = "collect"
     /\ call.at = "loop"
     /\ call.cursor <= call.to_date
     /\ call' = IF reach = Overflow
                THEN [call EXCEPT !.at = "raised", !.raised = "OverflowError"]
                ELSE Listed(list_meetings(call.calendar, call.cursor, window_end))
     /\ UNCHANGED <<session, committed, last, race, jobs, cache, now>>

\* return ids
CollectReturn ==
  /\ call.op = "collect"
  /\ call.at = "loop"
  /\ call.cursor > call.to_date
  /\ call' = [call EXCEPT !.at = "done"]
  /\ UNCHANGED <<session, committed, last, race, jobs, cache, now>>

NextCrawl ==
  \/ CollectStart
  \/ CollectWindow
  \/ CollectReturn

SpecCrawl == InitCrawl /\ [][NextCrawl]_vars

(***************************************************************************)
(* SpecWorker: one background job of jobs.py from create_ingest_job to the *)
(* end of its thread, with GET /ingest/range/job/{job_id} requests that    *)
(* read it in between.  Every get_job and _update_job holds the lock for   *)
(* itself only, so each is one step.  A dict is a function of its keys;    *)
(* a field that is None or an object holds <<>> or <<the object>>.         *)
(***************************************************************************)
\* the entry create_ingest_job puts into _jobs
queued_job(t) ==
  [status |-> "queued",
   created_at |-> t,
   updated_at |-> t,
   progress |-> [stage |-> "queued", discovered |-> 0, processed |-> 0,
                 current_meeting_id |-> None, succeeded |-> 0, failed |-> 0],
   result |-> <<>>,
   error |-> <<>>]

\* an update that leaves the status as it is
update_job_keeps_status(job, fields, t) ==
  [k \in DOMAIN job |->
     IF k = "updated_at" THEN t
     ELSE IF k \in DOMAIN fields /\ k # "status" THEN fields[k] ELSE job[k]]

\* _update_job: job.update(fields); job["updated_at"] = _now()
update_job(job, fields, t) ==
  [k \in DOMAIN job |->
     IF k = "updated_at" THEN t
     ELSE IF k \in DOMAIN fields THEN fields[k] ELSE job[k]]

\* a merge in which the values already there win
merge_progress_keeps_current(current, progress) ==
  [k \in DOMAIN current \cup DOMAIN progress |->
     IF k \in DOMAIN current THEN current[k] ELSE progress[k]]

\* merged = dict(current["progress"]); merged.update(progress)
merge_progress(current, progress) ==
  [k \in DOMAIN current \cup DOMAIN progress |->
     IF k \in DOMAIN progress THEN progress[k] ELSE current[k]]

\* the progress dicts ingest_range passes to its callback
progress_discovered(ids) ==
  [stage |-> "discovered", discovered |-> Len(ids), processed |-> 0,
   current_meeting_id |-> None, discovery_source |-> "network", cache_hit |-> FALSE]

progress_ingesting(ids, processed, mid) ==
  [stage |-> "ingesting", discovered |-> Len(ids), processed |-> processed,
   current_meeting_id |-> mid, discovery_source |-> "network", cache_hit |-> FALSE]

progress_completed(ids, succeeded, failed) ==
  [stage |-> "completed", discovered |-> Len(ids), processed |-> Len(ids),
   current_meeting_id |-> None, succeeded |-> succeeded, failed |-> failed,
   discovery_source |-> "network", cache_hit |-> FALSE]

\* the ids a job's range may hold, in discovery order
JobIds == <<3, 1>>

InitWorker ==
  /\ session = SessionLocal(EmptyDb)
  /\ committed = EmptyDb
  /\ last = Idle
  /\ race = NoRace
  /\ jobs = NoJobs
  /\ cache = NoCache
  /\ now = Second
  /\ call = [op |-> "job", at |-> "created", job |-> queued_job(Second),
             snapshot |-> queued_job(Second), current |-> queued_job(Second),
             ids |-> <<>>, i |-> 0, succeeded |-> 0, failed |-> 0,
             progress |-> <<>>, then |-> "", merged |-> <<>>]

\* the worker calls progress_callback(progress) and goes on at `then`
Callback(progress, then) ==
  [call EXCEPT !.at = "callback", !.progress = <<progress>>, !.then = then]

\* start_ingest_job: the thread starts
StartIngestJob ==
  /\ call.op = "job"
  /\ call.at = "created"
  /\ call' = [call EXCEPT !.at = "started"]
  /\ UNCHANGED <<session, committed, last, race, jobs, cache, now>>

\* _run_ingest_job: job = get_job(job_id)
ReadJob ==
  /\ call.op = "job"
  /\ call.at = "started"
  /\ call' = [call EXCEPT !.at = "read", !.current = call.job]
  /\ UNCHANGED <<session, committed, last, race, jobs, cache, now>>

\* _update_job(job_id, status="running", progress={**job["progress"], "stage": "running"})
MarkRunning ==
  /\ call.op = "job"
  /\ call.at = "read"
  /\ call' = [call EXCEPT
                !.at = "discover",
                !.job = update_job(
                          @, [status |-> "running",
                              progress |-> merge_progress(call.current.progress,
                                                          [stage |-> "running"])],
                          now)]
  /\ UNCHANGED <<session, committed, last, race, jobs, cache, now>>

\* ingest_range up to its loop: the discovery raises, or finds n ids and
\* reports them
Discover(n, raised) ==
  /\ call.op = "job"
  /\ call.at = "discover"
  /\ call' = IF raised THEN [call EXCEPT !.at = "raised"]
             ELSE [Callback(progress_discovered(SubSeq(JobIds, 1, n)),
                            IF n = 0 THEN "completed" ELSE "next")
                     EXCEPT !.ids = SubSeq(JobIds, 1, n)]
  /\ UNCHANGED <<session, committed, last, race, jobs, cache, now>>

\* progress_callback: current = get_job(job_id); merged = ...
CallbackRead ==
  /\ call.op = "job"
  /\ call.at = "callback"
  /\ call' = [call EXCEPT
                !.at = "update",
                !.current = call.job,
                !.merged = <<merge_progress(call.job.progress, call.progress[1])>>]
  /\ UNCHANGED <<session, committed, last, race, jobs, cache, now>>

\* progress_callback: _update_job(job_id, progress=merged)
CallbackUpdate ==
  /\ call.op = "job"
  /\ call.at = "update"
  /\ call' = [call EXCEPT
                !.at = call.then,
                !.job = update_job(@, [progress |-> call.merged[1]], now)]
  /\ UNCHANGED <<session, committed, last, race, jobs, cache, now>>

\* the loop of ingest_range: the callback before ingest_meeting
NextMeeting ==
  /\ call.op = "job"
  /\ call.at = "next"
  /\ call' = [Callback(progress_ingesting(call.ids, call.i, call.ids[call.i + 1]),
                       "ingest")
                EXCEPT !.i = call.i + 1]
  /\ UNCHANGED <<session, committed, last, race, jobs, cache, now>>

\* the loop of ingest_range: ingest_meeting returns ok, or returns another
\* status or raises, and the callback after it
IngestOne(ok) ==
  /\ call.op = "job"
  /\ call.at = "ingest"
  /\ call' = [Callback(progress_ingesting(call.ids, call.i, call.ids[call.i]),
                       IF call.i < Len(call.ids) THEN "next" ELSE "completed")
                EXCEPT !.succeeded = IF ok THEN @ + 1 ELSE @,
                       !.failed = IF ok THEN @ ELSE @ + 1]
  /\ UNCHANGED <<session, committed, last, race, jobs, cache, now>>

\* ingest_range after its loop: the last callback
Completed ==
  /\ call.op = "job"
  /\ call.at = "completed"
  /\ call' = Callback(progress_completed(call.ids, call.succeeded, call.failed),
                      "return")
  /\ UNCHANGED <<session, committed, last, race, jobs, cache, now>>

\* _update_job(job_id, status="completed", result=result)
JobCompleted ==
  /\ call.op = "job"
  /\ call.at = "return"
  /\ call' = [call EXCEPT
                !.at = "close",
                !.job = update_job(
                          @, [status |-> "completed",
                              result |-> <<[discovered |-> Len(call.ids),
                                            ingested |-> call.i,
                                            succeeded |-> call.succeeded,
                                            failed |-> call.failed]>>],
                          now)]
  /\ UNCHANGED <<session, committed, last, race, jobs, cache, now>>

\* except Exception as exc: _update_job(job_id, status="failed", error=str(exc))
JobFailed ==
  /\ call.op = "job"
  /\ call.at = "raised"
  /\ call' = [call EXCEPT
                !.at = "close",
                !.job = update_job(@, [status |-> "failed", error |-> <<"exc">>], now)]
  /\ UNCHANGED <<session, committed, last, race, jobs, cache, now>>

\* finally: db.close(); the thread ends
CloseJob ==
  /\ call.op = "job"
  /\ call.at = "close"
  /\ call' = [call EXCEPT !.at = "done"]
  /\ UNCHANGED <<session, committed, last, race, jobs, cache, now>>

\* GET /ingest/range/job/{job_id}: get_job returns dict(job); the dicts it
\* refers to are replaced by _update_job, never changed in place
GetJob ==
  /\ call.op = "job"
  /\ call.snapshot # call.job
  /\ call' = [call EXCEPT !.snapshot = call.job]
  /\ UNCHANGED <<session, committed, last, race, jobs, cache, now>>

\* the steps of the job's thread
RunIngestJob ==
  \/ ReadJob
  \/ MarkRunning
  \/ \E n \in 0..Len(JobIds), raised \in BOOLEAN : Discover(n, raised)
  \/ CallbackRead
  \/ CallbackUpdate
  \/ NextMeeting
  \/ \E ok \in BOOLEAN : IngestOne(ok)
  \/ Completed
  \/ JobCompleted
  \/ JobFailed
  \/ CloseJob

NextWorker ==
  \/ StartIngestJob
  \/ RunIngestJob
  \/ GetJob

SpecWorker == InitWorker /\ [][NextWorker]_vars

\* a started thread that can take a step takes it
SpecWorkerLive == SpecWorker /\ WF_vars(RunIngestJob)

(***************************************************************************)
(* SpecNodes: the graph builder over meetings that gain documents and      *)
(* change their name between rebuilds, and over a meeting id (3) that has  *)
(* no Meeting row.                                                         *)
(***************************************************************************)
\* the document upsert of ingest_meeting for an attachment of the meeting
AttachDocument(m, document_id, title) ==
  LET Upserted(s) ==
        /\ WithinBounds(s)
        /\ session' = s
        /\ last' = [Idle EXCEPT !.op = "upsert_document", !.meeting = m]
  IN /\ ~broken(session)
     /\ Upserted(upsert_document(session, m, document_id, title).s)
     /\ UNCHANGED <<committed, race, service>>

\* meeting = upsert_meeting(db, meeting_id, meeting_data) with another name
RenameMeeting(m, name) ==
  /\ ~broken(session)
  /\ get_meeting(session, m) # 0
  /\ session' = upsert_meeting(session, m, name)
  /\ last' = [Idle EXCEPT !.op = "upsert_meeting", !.meeting = m]
  /\ UNCHANGED <<committed, race, service>>

\* the attachments CivicWeb lists: (meeting id, document id)
NodeDocuments == { <<1, 7>>, <<2, 8>> }

NodeInputs == { <<Src(2, "minutes_excerpt", 1, 7), "date">> }

NextNodes ==
  \/ \E doc \in NodeDocuments : AttachDocument(doc[1], doc[2], "plain")
  \/ RenameMeeting(2, "date")
  \/ \E in \in NodeInputs : Replace(in[1], in[2])
  \/ \E m \in {1, 2, 3} : Rebuild(m)
  \/ Flush
  \/ Close

SpecNodes == InitGraph /\ [][NextNodes]_vars

(***************************************************************************)
(* SpecRename: the graph builder over meetings and a document whose name   *)
(* and title CivicWeb changes between two ingestions.                      *)
(***************************************************************************)
\* meeting = upsert_meeting(db, meeting_id, meeting_data)
UpsertMeeting(m, name) ==
  /\ ~broken(session)
  /\ session' = upsert_meeting(session, m, name)
  /\ last' = [Idle EXCEPT !.op = "upsert_meeting", !.meeting = m]
  /\ UNCHANGED <<committed, race, service>>

\* the document upsert of ingest_meeting: doc.title = att.get("title")
UpsertDocument(m, document_id, title) ==
  /\ ~broken(session)
  /\ session' = upsert_document(session, m, document_id, title).s
  /\ last' = [Idle EXCEPT !.op = "upsert_document", !.meeting = m]
  /\ UNCHANGED <<committed, race, service>>

NextRename ==
  \/ \E m \in {1, 2}, name \in {"City  Council", "date"} : UpsertMeeting(m, name)
  \/ \E title \in {"plain", "date"} : UpsertDocument(2, 7, title)
  \/ \E m \in {1, 2} : Rebuild(m)
  \/ Close

SpecRename == InitGraph /\ [][NextRename]_vars

(***************************************************************************)
(* SpecIngest: a job's session ingesting meetings one after the other, as  *)
(* the loop of ingest_range does, over what CivicWeb holds.                *)
(***************************************************************************)
\* cw.get_meeting_data / cw.get_meeting_documents / parse_agenda_html per
\* meeting id; a text is named by its key in Texts
Upstream ==
  [m \in {1, 2, 3} |->
     CASE m = 1 ->
            [Name |-> "date", agenda_html |-> TRUE,
             parsed_items |->
               <<[item_key |-> "1", title |-> "date",
                  attachments |-> <<[document_id |-> 2, title |-> "mayor",
                                     text_excerpt |-> ""]>>]>>]
       [] m = 2 ->
            [Name |-> "date", agenda_html |-> TRUE,
             parsed_items |->
               <<[item_key |-> "1", title |-> "",
                  attachments |-> <<[document_id |-> 7, title |-> "date",
                                     text_excerpt |-> "date"]>>]>>]
       [] m = 3 ->
            [Name |-> "mayor", agenda_html |-> FALSE, parsed_items |-> <<>>]]

\* one iteration of `for i, mid in enumerate(ids, start=1)`: ingest_meeting
\* inside try/except Exception, which records the error and goes on
Ingested(m, fails) ==
  LET Returned(r) ==
        /\ WithinBounds(r.s)
        /\ session' = Settle(r.s)
        /\ committed' = IF r.committed THEN Rows(r.s) ELSE committed
        /\ last' = [Idle EXCEPT
                      !.op = "ingest", !.meeting = m, !.status = r.status,
                      !.again = /\ last.op = "ingest" /\ last.meeting = m
                                /\ last.status \in {"ok", "no_agenda_html"},
                      !.db = Rows(session), !.calls = last.calls + 1,
                      !.done = last.done \cup (IF r.committed THEN {m} ELSE {})]
  IN /\ ~broken(session)
     /\ last.calls < MaxCalls
     /\ Returned(ingest_meeting(session, m, Upstream[m], fails))

IngestMeeting(m, fails) ==
  /\ Ingested(m, fails)
  /\ UNCHANGED <<race, service>>

\* run_ingest_job's `finally: db.close()`; the next job opens a new session
EndJob ==
  /\ session' = SessionLocal(committed)
  /\ UNCHANGED <<committed, last, race, service>>

NextIngest ==
  \/ \E m \in DOMAIN Upstream,
        fails \in {"", "get_meeting_documents"} :
        IngestMeeting(m, fails)
  \/ EndJob

SpecIngest == Init /\ [][NextIngest]_vars

(***************************************************************************)
(* SpecRange: ingest_range runs, one after the other, each on a new        *)
(* session, at the times of CacheTimes.                                    *)
(***************************************************************************)
\* the cache keys of the runs: (from_date, to_date, crawl, chunk_days)
Keys ==
  { <<"2026-02-01", "2026-02-22", 1, 31>>, <<"2026-02-01", "2026-02-22", 0, 31>> }

\* what cw.list_meetings answers for the range: the "Id" of each entry, None
\* for an entry without an int "Id"
Listings == { <<3>>, <<3, None, 1, 3>> }

\* the times at which something happens: a second, the half second after
\* it, one minute later and the half second after that
CacheTimes == {Second, Second + 1, Second + Minute, Second + Minute + 1}

\* rows the table may hold before the first run: none, or a row of the
\* first key that _read_cached_meeting_ids has to reject
StoredRows ==
  { <<>>,
    <<[key |-> <<"2026-02-01", "2026-02-22", 1, 31>>,
       meeting_ids_json |-> GarbledJson, last_fetched_at |-> Second]>>,
    <<[key |-> <<"2026-02-01", "2026-02-22", 1, 31>>,
       meeting_ids_json |-> json_dumps(<<1>>), last_fetched_at |-> Garbled]>>,
    <<[key |-> <<"2026-02-01", "2026-02-22", 1, 31>>,
       meeting_ids_json |-> json_dumps(<<1>>), last_fetched_at |-> Blank]>> }

InitRange ==
  /\ session = SessionLocal(EmptyDb)
  /\ committed = EmptyDb
  /\ last = Idle
  /\ race = NoRace
  /\ jobs = NoJobs
  /\ cache \in {[rows |-> rows, run |-> IdleRun] : rows \in StoredRows}
  /\ now = Second
  /\ call = NoCall

\* ingest_range up to its loop: the cache read, and on a miss the discovery
\* (with crawl one window covers the range, so both branches read one
\* listing), the cache write and db.commit() of a session that holds
\* nothing else yet
IngestRange(key, use_recent_cache, cache_ttl_minutes, limit, listing) ==
  LET i == get_range_discovery_cache(cache.rows, key)
      Discovered(read, ids) ==
        cache' = [rows |-> IF read.hit THEN cache.rows
                           ELSE write_cached_meeting_ids(cache.rows, key, ids, now),
                  run |-> [at |-> "ingest", key |-> key,
                           use_recent_cache |-> use_recent_cache,
                           cache_ttl_minutes |-> cache_ttl_minutes,
                           listing |-> listing,
                           before |-> IF i = 0 THEN <<>> ELSE <<cache.rows[i]>>,
                           started |-> now,
                           cache_hit |-> read.hit,
                           discoveries |-> IF read.hit THEN 0 ELSE 1,
                           found |-> ids,
                           ids |-> first_n(ids, limit),
                           i |-> 0,
                           limit |-> limit,
                           results |-> <<>>,
                           succeeded |-> 0,
                           failed |-> 0,
                           returned |-> FALSE]]
      Read(read) ==
        Discovered(read, IF read.hit THEN read.ids ELSE first_ids(listing, <<>>))
  IN /\ cache.run.at = "idle"
     /\ Read(IF use_recent_cache
             THEN read_cached_meeting_ids(cache.rows, key, cache_ttl_minutes, now)
             ELSE [hit |-> FALSE, ids |-> <<>>])
     /\ UNCHANGED <<session, committed, last, race, jobs, now, call>>

\* the loop of ingest_range: ingest_meeting(db, ids[i]) inside try/except,
\* the result appended and counted.  On a session whose flush failed the
\* first statement of ingest_meeting raises (nothing rolls the session
\* back), which the loop records like any other exception.
RangeIngest(fails) ==
  LET mid == cache.run.ids[cache.run.i + 1]
      Recorded(status) ==
        cache' = [cache EXCEPT
                    !.run.i = @ + 1,
                    !.run.results = Append(@, [meeting_id |-> mid, status |-> status]),
                    !.run.succeeded =
                       IF status \in {"ok", "no_agenda_html"} THEN @ + 1 ELSE @,
                    !.run.failed =
                       IF status \in {"ok", "no_agenda_html"} THEN @ ELSE @ + 1]
  IN /\ cache.run.at = "ingest"
     /\ cache.run.i < Len(cache.run.ids)
     /\ IF broken(session)
        THEN /\ fails = ""
             /\ Recorded("error")
             /\ UNCHANGED <<session, committed, last>>
        ELSE /\ Ingested(mid, fails)
             /\ Recorded(last'.status)
     /\ UNCHANGED <<race, jobs, now, call>>

\* ingest_range returns and its caller closes the session
EndRange ==
  /\ cache.run.at = "ingest"
  /\ cache.run.i = Len(cache.run.ids)
  /\ cache' = [cache EXCEPT !.run.at = "idle", !.run.returned = TRUE]
  /\ session' = SessionLocal(committed)
  /\ UNCHANGED <<committed, last, race, jobs, now, call>>

NextRange ==
  \/ \E key \in Keys, use_recent_cache \in BOOLEAN, cache_ttl_minutes \in {-1, 1},
        limit \in {1, 50}, listing \in Listings :
        IngestRange(key, use_recent_cache, cache_ttl_minutes, limit, listing)
  \/ RangeIngest("")
  \/ EndRange
  \/ \E t \in CacheTimes : t > now /\ Tick(t - now, t)

SpecRange == InitRange /\ [][NextRange]_vars

(***************************************************************************)
(* SpecLoop: the loop of ingest_range over the discovered ids, with        *)
(* meetings whose ingest raises, for the limits a caller may pass.         *)
(***************************************************************************)
\* the `limit` arguments: negative, smaller than a listing, the default
Limits == {-1, 1, 50}

NextLoop ==
  \/ \E use_recent_cache \in BOOLEAN, limit \in Limits, listing \in Listings :
        IngestRange(<<"2026-02-01", "2026-02-22", 1, 31>>, use_recent_cache, 1,
                    limit, listing)
  \/ \E fails \in {"", "get_meeting_documents"} : RangeIngest(fails)
  \/ EndRange

SpecLoop == Init /\ [][NextLoop]_vars

(***************************************************************************)
(* SpecRace: two workers ingest different meetings at the same time, each  *)
(* on its own session.  A worker's upsert is two steps, the query and the  *)
(* INSERT of the flush; a transaction sees the committed rows and its own  *)
(* (read committed, the isolation the database of DATABASE_URL gives).     *)
(***************************************************************************)
\* the statements of ingest_meeting(db, m) on the rows with a unique key, in
\* the order the code issues them: db.get(Meeting) and db.add (upsert_meeting),
\* the DELETE of the meeting_metadata mentions, the date entity of the
\* meeting's name (_upsert_entity), its mention (db.add), the db.flush() of
\* rebuild_graph_for_meeting and the meeting's edge to the date
\* (upsert_entity_connection)
Upserts(m) ==
  <<[op |-> "get", table |-> "meetings", key |-> <<m>>],
    [op |-> "delete", table |-> "entity_mentions", key |-> <<"meeting_metadata", m>>],
    [op |-> "upsert", table |-> "entities", key |-> <<"date", "2026-02-17">>],
    [op |-> "add", table |-> "entity_mentions",
     key |-> <<"meeting_metadata", m, "date:2026-02-17">>],
    [op |-> "flush", table |-> "", key |-> <<>>],
    [op |-> "upsert", table |-> "entity_connections",
     key |-> <<"meeting:" \o ToString(m), "date:2026-02-17", "occurs_on",
               "meeting_metadata", m>>]>>

\* the row a statement is about
row_of(step) == [table |-> step.table, key |-> step.key]

\* where a worker stands before statement i of its ingest: a db.add only
\* queues the object, a db.flush() with nothing queued does nothing
before_step(wk, i) ==
  LET step == Upserts(wk.meeting)[i]
      at == CASE step.op = "delete" -> "delete"
              [] step.op = "flush" -> "insert"
              [] OTHER -> "query"
  IN IF step.op = "add"
     THEN [wk EXCEPT !.i = i, !.at = "add"]
     ELSE [wk EXCEPT !.i = i, !.at = at]

\* the step after statement i of a worker's ingest
after_upsert(wk, i) ==
  IF i < Len(Upserts(wk.meeting))
  THEN before_step(wk, i + 1)
  ELSE [wk EXCEPT !.at = "commit"]

\* a job starts ingest_meeting(db, m); no other worker is on the same meeting
StartIngest(w, m) ==
  /\ race.worker[w].at = "idle"
  /\ \A v \in Workers \ {w} : race.worker[v].meeting # m
  /\ race' = [race EXCEPT !.worker[w] =
                 before_step([IdleWorker EXCEPT !.meeting = m], 1)]
  /\ UNCHANGED <<session, committed, last, service>>

\* POST /ingest/meeting/{meeting_id}: each request runs ingest_meeting on its
\* own session in a thread of the server's pool, whatever the other requests
\* and jobs are ingesting
ingest_one(w, m) ==
  /\ race.worker[w].at = "idle"
  /\ race' = [race EXCEPT !.worker[w] =
                 before_step([IdleWorker EXCEPT !.meeting = m], 1)]
  /\ UNCHANGED <<session, committed, last, service>>

\* the rows a worker's transaction sees: the committed rows it has not
\* deleted, and its own
visible(wk) == (race.rows \ wk.gone) \cup wk.own

\* row = db.get(...) / db.query(...).filter(<unique key>).one_or_none(),
\* which do not see objects that are only db.add()ed (autoflush is off); a
\* row that db.get misses is db.add()ed (upsert_meeting), a row that an
\* upsert's query misses is added and flushed
Query(w) ==
  LET wk == race.worker[w]
      step == Upserts(wk.meeting)[wk.i]
      row == row_of(step)
  IN /\ wk.at = "query"
     /\ race' = [race EXCEPT !.worker[w] =
                    IF row \in visible(wk)
                    THEN after_upsert(wk, wk.i)
                    ELSE IF step.op = "get"
                    THEN after_upsert([wk EXCEPT !.queue = Append(@, row)], wk.i)
                    ELSE [wk EXCEPT !.queue = Append(@, row), !.at = "insert"]]
     /\ UNCHANGED <<session, committed, last, service>>

\* db.add(mention): the object waits for the next flush
AddMention(w) ==
  LET wk == race.worker[w]
      row == row_of(Upserts(wk.meeting)[wk.i])
  IN /\ wk.at = "add"
     /\ race' = [race EXCEPT !.worker[w] =
                    after_upsert([wk EXCEPT !.queue = Append(@, row)], wk.i)]
     /\ UNCHANGED <<session, committed, last, service>>

\* the mentions of a source among rows
of_source(rows, source) ==
  {r \in rows : r.table = "entity_mentions" /\ SubSeq(r.key, 1, 2) = source}

\* db.query(EntityMention).filter(source).delete(): removes the source's rows
\* the transaction sees; it waits for a transaction that has deleted one of
\* them and not committed.  Objects that are only db.add()ed stay.
DeleteMentions(w) ==
  LET wk == race.worker[w]
      source == Upserts(wk.meeting)[wk.i].key
  IN /\ wk.at = "delete"
     /\ \A v \in Workers \ {w} : of_source(race.rows, source) \cap race.worker[v].gone = {}
     /\ race' = [race EXCEPT !.worker[w] =
                    after_upsert([wk EXCEPT
                                    !.gone = @ \cup of_source(race.rows, source),
                                    !.own = @ \ of_source(wk.own, source),
                                    !.deleted = TRUE], wk.i)]
     /\ UNCHANGED <<session, committed, last, service>>

\* db.flush(): one INSERT per queued object, oldest first.  The INSERT waits
\* for a transaction that holds the same key (inserted or deleted, not
\* committed), and raises IntegrityError when the key is committed; nothing
\* catches it, ingest_meeting raises and the session is closed
Insert(w) ==
  LET wk == race.worker[w]
      row == Head(wk.queue)
      Inserted == [wk EXCEPT !.own = @ \cup {row}, !.queue = Tail(@)]
  IN /\ wk.at = "insert"
     /\ IF wk.queue = <<>>
        THEN race' = [race EXCEPT !.worker[w] = after_upsert(wk, wk.i)]
        ELSE /\ \A v \in Workers \ {w} :
                   row \notin race.worker[v].own \cup race.worker[v].gone
             /\ race' = [race EXCEPT !.worker[w] =
                            IF row \in visible(wk)
                            THEN [IdleWorker EXCEPT !.result = "error"]
                            ELSE Inserted]
     /\ UNCHANGED <<session, committed, last, service>>

\* the db.commit() that ends ingest_meeting
CommitIngest(w) ==
  /\ race.worker[w].at = "commit"
  /\ race' = [rows |-> (race.rows \ race.worker[w].gone) \cup race.worker[w].own,
              worker |-> [race.worker EXCEPT ![w] =
                            [IdleWorker EXCEPT !.result = "ok"]]]
  /\ UNCHANGED <<session, committed, last, service>>

NextRace ==
  \/ \E w \in Workers, m \in {1, 2, 3} : StartIngest(w, m)
  \/ \E w \in Workers : Query(w)
  \/ \E w \in Workers : AddMention(w)
  \/ \E w \in Workers : DeleteMentions(w)
  \/ \E w \in Workers : Insert(w)
  \/ \E w \in Workers : CommitIngest(w)

SpecRace == Init /\ [][NextRace]_vars

(***************************************************************************)
(* SpecSame: requests and jobs that may ingest the same meeting at the     *)
(* same time.                                                              *)
(***************************************************************************)
NextSame ==
  \/ \E w \in Workers, m \in {1, 2} : ingest_one(w, m)
  \/ \E w \in Workers : Query(w)
  \/ \E w \in Workers : AddMention(w)
  \/ \E w \in Workers : DeleteMentions(w)
  \/ \E w \in Workers : Insert(w)
  \/ \E w \in Workers : CommitIngest(w)

SpecSame == Init /\ [][NextSame]_vars

(***************************************************************************)
(* SpecJobs: clients that post range jobs at any time, the threads of the  *)
(* jobs, and the clock.                                                    *)
(***************************************************************************)
NextJobs ==
  \/ \E c \in Clients, valid \in BOOLEAN : PostRangeJob(c, valid)
  \/ \E c \in Clients : CheckCooldown(c)
  \/ \E c \in Clients : CreateJob(c)
  \/ \E c \in Clients : StartJob(c)
  \/ \E j \in 1..Len(jobs.registry) : RunJob(j)
  \/ \E j \in 1..Len(jobs.registry), raised \in BOOLEAN : FinishJob(j, raised)
  \/ Tick(5 * Second, JobHorizon)

SpecJobs == Init /\ [][NextJobs]_vars

(***************************************************************************)
(* Properties of the ledger and of the graph builder.                      *)
(***************************************************************************)

\* C1: replacing a source's mentions twice with the same text and candidates
\* leaves the same stored set as doing it once, and raises no constraint
\* error: the source holds each (entity, text, confidence) once, as before
\* the second call.
C1_ReplaceTwiceSameSet ==
  (last.op = "replace" /\ last.prev_text = last.text) =>
     /\ session.error = ""
     /\ Triples(SourceMentions(session, last.src)) = last.before
     /\ Distinct(SourceMentions(session, last.src), "uq_entity_mention_source_text")

\* C2: at most one entity row exists per (entity_type, normalized_value); no
\* upsert runs into uq_entity_type_normalized, and every mention, from
\* whichever source, points at the one row that carries its candidate's key.
C2_OneEntityPerKey ==
  /\ Distinct(session.entities, "uq_entity_type_normalized")
  /\ Distinct(committed.entities, "uq_entity_type_normalized")
  /\ session.error # "uq_entity_type_normalized"
  /\ \A i \in 1..Len(session.mentions \o session.new_mentions) :
       LET row == (session.mentions \o session.new_mentions)[i]
           e == session.entities[row.entity_id]
       IN /\ row.entity_id \in 1..Len(session.entities)
          /\ \/ row.confidence = 7
             \/ normalize_entity_value(e.entity_type, row.mention_text)[2]
                  = e.normalized_value

\* an entity mentioned from two sources, next to the meeting's own entity
C2_Witness ==
  /\ session.error = ""
  /\ last.op = "rebuild"
  /\ \E i, j \in 1..Len(session.mentions) :
       /\ session.mentions[i].entity_id = session.mentions[j].entity_id
       /\ session.mentions[i].source_type # session.mentions[j].source_type
       /\ session.mentions[i].confidence = 10
       /\ session.mentions[j].confidence = 10
       /\ session.mentions[i].mention_text # session.mentions[j].mention_text

\* C3: at most one edge exists per (from, to, relation, evidence source type,
\* evidence source id), no rebuild runs into the edge constraint, and a
\* second rebuild of the same meeting leaves the number of edges unchanged.
C3_RebuildKeepsOneEdgePerKey ==
  /\ Distinct(session.connections, "uq_entity_connection_edge_evidence")
  /\ session.error # "uq_entity_connection_edge_evidence"
  /\ (last.op = "rebuild" /\ last.again /\ session.error = "")
       => Len(session.connections) = last.count

\* a second rebuild over a meeting with two mentions that yield the same edge
C3_Witness ==
  /\ last.op = "rebuild" /\ last.again /\ last.meeting = 2
  /\ session.error = ""
  /\ Len(session.connections) >= 2
  /\ \E i, j \in 1..Len(session.mentions) :
       /\ i # j
       /\ session.mentions[i].entity_id = session.mentions[j].entity_id
       /\ session.mentions[i].source_type = session.mentions[j].source_type
       /\ session.mentions[i].source_id = session.mentions[j].source_id

\* C4: after a source's mentions are replaced with a different text, every
\* mention the source holds was made by this call; none made only from the
\* earlier text survives.
C4_NoStaleMention ==
  (last.op = "replace" /\ last.prev_text \notin {"none", last.text}
     /\ session.error = "") =>
     \A i \in 1..Len(SourceMentions(session, last.src)) :
        Triple(SourceMentions(session, last.src)[i]) \in Triples(last.made)

C6_SnowballOnLaterSource ==
  \A i \in 1..Len(session.mentions \o session.new_mentions) :
     LET direct == (session.mentions \o session.new_mentions)[i]
     IN (/\ last.op = "replace"
         /\ session.error = ""
         /\ ~IsSource(direct, last.src)
         /\ direct.confidence = 10
         /\ session.entities[direct.entity_id].entity_type = "person"
         /\ \E a \in 1..Len(Texts[last.text].atoms) :
              Texts[last.text].atoms[a] = "P_jane"
         /\ \A a \in 1..Len(Texts[last.text].atoms) :
              Texts[last.text].atoms[a] # "T_jane") =>
          \E j \in 1..Len(SourceMentions(session, last.src)) :
             LET row == SourceMentions(session, last.src)[j]
             IN /\ row.entity_id = direct.entity_id
                /\ row.confidence = 7
                /\ row.mention_text = MatchText("P_jane")

\* C7: ingestion of a meeting commits atomically: the committed rows never
\* hold a Meeting row or a mention of a meeting of which no ingest has
\* completed, also when the loop of ingest_range goes on to the next meeting
\* after a failure.
C7_NoPartialIngestCommitted ==
  /\ \A i \in 1..Len(committed.mentions) :
        committed.mentions[i].meeting_id \in last.done
  /\ \A i \in 1..Len(committed.meetings) :
        committed.meetings[i].meeting_id \in last.done

\* C8: a second ingest of a meeting, upstream unchanged, leaves the
\* meeting's set of mentions and its set of edges as the first left them.
C8_IngestTwiceSameRows ==
  (last.op = "ingest" /\ last.again /\ last.status \in {"ok", "no_agenda_html"}) =>
     /\ {session.mentions[i] : i \in {k \in 1..Len(session.mentions) :
                                       session.mentions[k].meeting_id = last.meeting}}
          = {last.db.mentions[i] : i \in {k \in 1..Len(last.db.mentions) :
                                       last.db.mentions[k].meeting_id = last.meeting}}
     /\ {session.connections[i] : i \in {k \in 1..Len(session.connections) :
                                       session.connections[k].meeting_id = last.meeting}}
          = {last.db.connections[i] : i \in {k \in 1..Len(last.db.connections) :
                                       last.db.connections[k].meeting_id = last.meeting}}

\* C9: no (source_type, source_id) is used by mentions of two meetings, and
\* an ingest of one meeting removes no mention of another meeting.
C9_NoSharedEvidenceTuple ==
  /\ \A i, j \in 1..Len(session.mentions) :
        (/\ session.mentions[i].source_type = session.mentions[j].source_type
         /\ session.mentions[i].source_id = session.mentions[j].source_id)
        => session.mentions[i].meeting_id = session.mentions[j].meeting_id
  /\ (last.op = "ingest" /\ last.status \in {"ok", "no_agenda_html"}) =>
        \A i \in 1..Len(last.db.mentions) :
           last.db.mentions[i].meeting_id # last.meeting =>
              \E j \in 1..Len(session.mentions) :
                 session.mentions[j] = last.db.mentions[i]

\* C10: when two workers ingesting different meetings upsert the same key
\* at the same time, both ingestions complete: no worker's ingest ends in
\* the constraint violation of the insert it lost.
C10_RaceLoserRecovers ==
  \A w \in Workers : race.worker[w].result # "error"

\* C11: two ingestions of the same meeting never interleave: while one
\* ingestion has executed the DELETE of a source's mentions and has not yet
\* committed, no other ingestion of that meeting has executed its own.
C11_SameMeetingSerialized ==
  \A w, v \in Workers :
     (/\ w # v
      /\ race.worker[w].meeting # 0
      /\ race.worker[w].meeting = race.worker[v].meeting)
     => ~(race.worker[w].deleted /\ race.worker[v].deleted)

\* C12: at most MAX_ACTIVE_INGEST_JOBS ingest jobs are queued or running at
\* any time, however the POST /ingest/range/job requests interleave.
C12_AtMostOneActiveJob ==
  count_active_jobs(jobs.registry) <= MAX_ACTIVE_INGEST_JOBS

\* C13: the creation times of any two jobs of the registry are at least
\* INGEST_JOB_COOLDOWN_SECONDS apart.
C13_JobsCooldownApart ==
  \A i, j \in 1..Len(jobs.registry) :
     i < j => jobs.registry[j].created_at - jobs.registry[i].created_at
                >= INGEST_JOB_COOLDOWN_SECONDS * Second

\* C14: a run of ingest_range uses the cached list exactly when caching is
\* on and the key's row is readable and no older than the ttl (a negative
\* ttl counting as none); otherwise it discovers once and, before any
\* meeting is ingested, the key's single row holds the discovered ids and
\* the time of the run.
C14_CacheUsedIffFresh ==
  LET run == cache.run
      ttl == IF run.cache_ttl_minutes < 0 THEN 0 ELSE run.cache_ttl_minutes
      fresh == /\ run.use_recent_cache
               /\ run.before # <<>>
               /\ run.before[1].last_fetched_at > 0
               /\ run.before[1].meeting_ids_json.text = "list"
               /\ run.started - run.before[1].last_fetched_at <= ttl * Minute
      Mine(row) == row.key = run.key
      mine == SelectSeq(cache.rows, Mine)
      listed == {run.listing[k] : k \in 1..Len(run.listing)} \ {None}
  IN run.at = "ingest" =>
       /\ run.cache_hit <=> fresh
       /\ fresh => /\ run.discoveries = 0
                   /\ run.found = run.before[1].meeting_ids_json.ids
                   /\ mine = run.before
       /\ ~fresh => /\ run.discoveries = 1
                    /\ Len(mine) = 1
                    /\ mine[1].meeting_ids_json = [text |-> "list", ids |-> run.found]
                    /\ {run.found[k] : k \in 1..Len(run.found)} = listed
                    /\ Len(run.found) = Cardinality(listed)
                    /\ mine[1].last_fetched_at <= run.started
                    /\ run.started - mine[1].last_fetched_at < Second

\* a run that used a row exactly one ttl old, and has ingested a meeting
C14_Witness ==
  /\ cache.run.at = "ingest"
  /\ cache.run.cache_hit
  /\ cache.run.cache_ttl_minutes = 1
  /\ cache.run.started - cache.run.before[1].last_fetched_at = Minute
  /\ cache.run.i > 0

\* C15: once the display value of an entity row is not empty, no step
\* changes it.
C15_DisplayNeverOverwritten ==
  [][\A i \in 1..Len(session.entities) :
       (session.entities[i].display_value # "" /\ i <= Len(session'.entities))
       => session'.entities[i].display_value = session.entities[i].display_value]_vars

\* the keys of the EntityConnection rows a session sees
ConnectionKeys(s) == {ConnectionKey(s.connections[i]) : i \in 1..Len(s.connections)}

\* C16: the set of EntityConnection keys never shrinks: every call of the
\* ledger or the graph builder, and every flush, that does not fail keeps
\* every edge that was there before it.
C16_EdgesNeverRemoved ==
  [][(last' # Idle /\ ~broken(session'))
     => ConnectionKeys(session) \subseteq ConnectionKeys(session')]_vars

\* meeting 2 was rebuilt and an edge whose evidence is the meeting's
\* metadata is present although the metadata has no mention any more
C16_Witness ==
  /\ last.op = "rebuild"
  /\ last.meeting = 2
  /\ ~broken(session)
  /\ SourceMentions(session, Src(2, "meeting_metadata", 2, None)) = <<>>
  /\ \E i \in 1..Len(session.connections) :
        /\ session.connections[i].evidence_source_type = "meeting_metadata"
        /\ session.connections[i].evidence_source_id = 2

\* C17: in every state, also between the calls of the ledger when nothing
\* was flushed, no two EntityMention rows of the session (stored or added)
\* share (entity_id, source_type, source_id, mention_text), and no flush
\* fails on that constraint.
C17_OneMentionPerKey ==
  /\ Distinct(session.mentions \o session.new_mentions, "uq_entity_mention_source_text")
  /\ Distinct(committed.mentions, "uq_entity_mention_source_text")
  /\ session.error # "uq_entity_mention_source_text"

\* C18: however often a person is confirmed, with or without a flush
\* between the upserts, the session holds at most one EntityAlias row
\* (stored or added) per (entity_id, normalized_alias), and no flush or
\* commit fails on that constraint.
C18_OneAliasPerKey ==
  /\ Distinct(session.aliases \o session.new_aliases, "uq_entity_alias")
  /\ Distinct(committed.aliases, "uq_entity_alias")
  /\ session.error # "uq_entity_alias"

\* the mention has its document-level edge: a `mentions` edge from the
\* document entity of the mention's document to the mentioned entity, with
\* the mention's source as evidence
HasDocumentEdge(s, mention) ==
  \E i \in 1..Len(s.connections) :
     LET c == s.connections[i] IN
     /\ c.relation_type = "mentions"
     /\ c.to_entity_id = mention.entity_id
     /\ c.evidence_source_type = mention.source_type
     /\ c.evidence_source_id = mention.source_id
     /\ c.from_entity_id \in 1..Len(s.entities)
     /\ s.entities[c.from_entity_id].entity_type = "document"
     /\ s.entities[c.from_entity_id].normalized_value =
          "document:" \o ToString(mention.meeting_id) \o ":" \o ToString(mention.document_id)

\* the mentions of the rebuilt meeting that carry a document id
FiledMentions ==
  LET Filed(mention) == mention.meeting_id = last.meeting /\ mention.document_id # None
  IN SelectSeq(session.mentions, Filed)

\* C19 as stated: after a rebuild of a meeting, every mention of the meeting
\* that carries a document id has its document-level edge, also when the
\* meeting has no Document row with that id.
C19_DocumentEdgeForEveryFiledMention ==
  (last.op = "rebuild" /\ ~broken(session)) =>
     \A i \in 1..Len(FiledMentions) : HasDocumentEdge(session, FiledMentions[i])

\* C19 as amended: after a rebuild of a meeting, every mention of the
\* meeting whose document id is that of a Document row of the meeting has
\* its document-level edge.
C19_DocumentEdgeForAttachedDocument ==
  (last.op = "rebuild" /\ ~broken(session)) =>
     \A i \in 1..Len(FiledMentions) :
        find_document(session, last.meeting, FiledMentions[i].document_id) # 0
        => HasDocumentEdge(session, FiledMentions[i])

\* meeting 2 was rebuilt while it held a mention filed under its document 7
\* and one filed under the id 9, for which it has no Document row
C19_Witness ==
  /\ last.op = "rebuild"
  /\ last.meeting = 2
  /\ ~broken(session)
  /\ \E i, j \in 1..Len(FiledMentions) :
        /\ FiledMentions[i].document_id = 7
        /\ FiledMentions[j].document_id = 9
  /\ find_document(session, 2, 7) # 0
  /\ find_document(session, 2, 9) = 0

\* the relation the rule of the graph builder gives a meeting-level edge
RuleRelation(source_type, entity_type) ==
  CASE source_type = "meeting_metadata" /\ entity_type = "date" -> "occurs_on"
    [] source_type = "meeting_metadata" /\ entity_type \in {"address", "zip_code"}
         -> "occurs_at"
    [] OTHER -> "mentions"

\* the edges from a meeting entity to a mentioned entity
MeetingLevelEdges ==
  LET Level(c) == /\ session.entities[c.from_entity_id].entity_type = "meeting"
                  /\ c.relation_type # "contains_document"
  IN SelectSeq(session.connections, Level)

\* C20: every meeting-level edge has the relation of the rule (occurs_on for
\* a date found in meeting metadata, occurs_at for an address or zip code
\* found in meeting metadata, mentions otherwise), and after a rebuild every
\* mention of the meeting has its meeting-level edge with that relation and
\* with the mention's (source_type, source_id) as evidence.
C20_RelationByRule ==
  /\ \A i \in 1..Len(MeetingLevelEdges) :
        LET c == MeetingLevelEdges[i] IN
        c.relation_type =
          RuleRelation(c.evidence_source_type, session.entities[c.to_entity_id].entity_type)
  /\ (last.op = "rebuild" /\ ~broken(session)) =>
        \A k \in 1..Len(session.mentions) :
           LET mention == session.mentions[k] IN
           mention.meeting_id = last.meeting =>
              \E i \in 1..Len(MeetingLevelEdges) :
                 LET c == MeetingLevelEdges[i] IN
                 /\ session.entities[c.from_entity_id].normalized_value =
                      "meeting:" \o ToString(last.meeting)
                 /\ c.to_entity_id = mention.entity_id
                 /\ c.evidence_source_type = mention.source_type
                 /\ c.evidence_source_id = mention.source_id
                 /\ c.relation_type =
                      RuleRelation(mention.source_type,
                                   session.entities[mention.entity_id].entity_type)

\* meeting 2 was rebuilt and has an occurs_on and an occurs_at edge from its
\* metadata and a mentions edge to a date found in minutes
C20_Witness ==
  /\ last.op = "rebuild"
  /\ last.meeting = 2
  /\ ~broken(session)
  /\ \E i, j, k \in 1..Len(MeetingLevelEdges) :
        /\ MeetingLevelEdges[i].relation_type = "occurs_on"
        /\ MeetingLevelEdges[j].relation_type = "occurs_at"
        /\ MeetingLevelEdges[k].relation_type = "mentions"
        /\ MeetingLevelEdges[k].evidence_source_type = "minutes_excerpt"
        /\ session.entities[MeetingLevelEdges[k].to_entity_id].entity_type = "date"

\* the Entity rows of type meeting with the normalized value meeting:<id>
MeetingEntities(s, meeting_id) ==
  {i \in 1..Len(s.entities) :
     /\ s.entities[i].entity_type = "meeting"
     /\ s.entities[i].normalized_value = "meeting:" \o ToString(meeting_id)}

\* the EntityBinding rows of a source row
Bindings(s, source_table, source_id) ==
  {i \in 1..Len(s.bindings) :
     /\ s.bindings[i].source_table = source_table
     /\ s.bindings[i].source_id = source_id}

\* C21: EntityBinding never has two rows for one (source_table, source_id)
\* and no call fails on that constraint; after every rebuild of an existing
\* meeting N, the first or a repeated one, exactly one meeting entity
\* meeting:N exists and exactly one binding (meetings, N), which points to it.
C21_OneMeetingEntityAndBinding ==
  /\ Distinct(session.bindings, "uq_entity_binding_source")
  /\ session.error # "uq_entity_binding_source"
  /\ (/\ last.op = "rebuild"
      /\ ~broken(session)
      /\ get_meeting(session, last.meeting) # 0) =>
        /\ Cardinality(MeetingEntities(session, last.meeting)) = 1
        /\ Cardinality(Bindings(session, "meetings", last.meeting)) = 1
        /\ \A b \in Bindings(session, "meetings", last.meeting) :
              session.bindings[b].entity_id \in MeetingEntities(session, last.meeting)

\* meeting 2 was renamed and then rebuilt for the second time in a row
C21_Witness ==
  /\ last.op = "rebuild"
  /\ last.again
  /\ last.meeting = 2
  /\ ~broken(session)
  /\ session.meetings[get_meeting(session, 2)].name = "date"
  /\ MeetingEntities(session, 2) # {}

\* the document entities of the Document row with local id k: the entities
\* document:<meeting id>:<document id> that a binding (documents, k) points to
DocumentEntities(s, k) ==
  {e \in 1..Len(s.entities) :
     /\ s.entities[e].entity_type = "document"
     /\ s.entities[e].normalized_value =
          "document:" \o ToString(s.documents[k].meeting_id) \o ":"
                      \o ToString(s.documents[k].document_id)
     /\ \E b \in Bindings(s, "documents", k) : s.bindings[b].entity_id = e}

\* the Document rows attached to a meeting, by local id
DocumentsOf(s, meeting_id) ==
  {k \in 1..Len(s.documents) : s.documents[k].meeting_id = meeting_id}

\* C22: after a rebuild of an existing meeting every Document row of the
\* meeting has a document entity bound to (documents, local id) and a
\* contains_document edge from the meeting entity to it with the evidence
\* (documents, local id); no two Document rows share a document entity.
C22_DocumentEntitiesAndEdges ==
  (/\ last.op = "rebuild"
   /\ ~broken(session)
   /\ get_meeting(session, last.meeting) # 0) =>
     /\ \A k \in DocumentsOf(session, last.meeting) :
           \E e \in DocumentEntities(session, k) :
              \E i \in 1..Len(session.connections) :
                 LET c == session.connections[i] IN
                 /\ c.from_entity_id \in MeetingEntities(session, last.meeting)
                 /\ c.to_entity_id = e
                 /\ c.relation_type = "contains_document"
                 /\ c.evidence_source_type = "documents"
                 /\ c.evidence_source_id = k
     /\ \A k1, k2 \in 1..Len(session.documents) :
           k1 # k2 => DocumentEntities(session, k1) \cap DocumentEntities(session, k2) = {}

\* meeting 2 was rebuilt with its two documents 7 and 8, and meeting 1 holds
\* a document 7 of its own
C22_Witness ==
  /\ last.op = "rebuild"
  /\ last.meeting = 2
  /\ ~broken(session)
  /\ Cardinality(DocumentsOf(session, 2)) = 2
  /\ DocumentsOf(session, 1) # {}
  /\ \A k \in 1..Len(session.documents) : DocumentEntities(session, k) # {}

\* C23: a rebuild for a meeting id without Meeting row returns the zero
\* counts, raises nothing, and leaves the Entity, EntityBinding and
\* EntityConnection rows as they were.
C23_MissingMeetingZeroResult ==
  [][\A m \in {1, 2, 3} :
       (get_meeting(session, m) = 0 /\ Rebuild(m)) =>
          /\ rebuild_graph_for_meeting(session, m).stats = ZeroStats
          /\ ~broken(session')
          /\ session'.entities = session.entities
          /\ session'.bindings = session.bindings
          /\ session'.connections = session.connections]_vars

\* a rebuild for the missing meeting 3 has returned in a session that holds
\* graph rows of meeting 2 and two added documents that are not yet flushed
C23_Witness ==
  /\ last.op = "rebuild"
  /\ last.meeting = 3
  /\ get_meeting(session, 3) = 0
  /\ ~broken(session)
  /\ session.connections # <<>>
  /\ Len(session.new_documents) = 2

RECURSIVE SumEvidence(_)
\* the sum over edges of max(1, evidence_count)
SumEvidence(edges) ==
  IF edges = <<>> THEN 0
  ELSE (IF Head(edges).evidence_count > 1 THEN Head(edges).evidence_count ELSE 1)
       + SumEvidence(Tail(edges))

\* the edges of the request's entity whose evidence text, resolved and
\* classified for the edge alone, carries the requested topic
TopicEdges ==
  LET Carries(edge) ==
        call.topic \in classify_topics(source_text(call.db, edge.evidence_source_type,
                                                   edge.evidence_source_id))
  IN SelectSeq(edges_of(call.db.connections, call.entity_id, Len(call.db.connections)),
               Carries)

\* the edges of TopicEdges that fall into the bucket of a response row
TopicEdgesOf(row) ==
  LET Same(edge) == bucket_key(edge, call.entity_id)
                      = <<row.entity_id, row.relation_type, row.direction>>
  IN SelectSeq(TopicEdges, Same)

\* C24: with a topic filter, every bucket of the response holds at least one
\* edge whose evidence text carries the topic, its counts are those of such
\* edges only, and every such edge (to an entity of the requested type) is
\* in a bucket: the cache of verdicts per evidence source changes nothing.
C24_TopicFilterByEvidence ==
  (call.op = "connections" /\ call.topic # "") =>
     /\ \A row \in call.response :
           /\ TopicEdgesOf(row) # <<>>
           /\ row.edge_count = Len(TopicEdgesOf(row))
           /\ row.evidence_count = SumEvidence(TopicEdgesOf(row))
           /\ row.shared_meeting_count =
                Cardinality({TopicEdgesOf(row)[i].meeting_id : i \in 1..Len(TopicEdgesOf(row))}
                            \ {None})
     /\ \A i \in 1..Len(TopicEdges) :
           LET key == bucket_key(TopicEdges[i], call.entity_id) IN
           (call.entity_type \in {"", call.db.entities[key[1]].entity_type}) =>
              \E row \in call.response :
                 <<row.entity_id, row.relation_type, row.direction>> = key

\* a zoning query on the meeting entity kept one of the two edges to the
\* person and kept the date edge, whose evidence another edge had resolved
C24_Witness ==
  /\ call.op = "connections"
  /\ call.entity_id = 1
  /\ call.topic = "zoning"
  /\ \E row \in call.response :
        row.entity_id = 2 /\ row.relation_type = "mentions" /\ row.edge_count = 1
  /\ \E row \in call.response : row.relation_type = "occurs_on"

\* the rows a table holds for the key of the call
CallRows(connections) ==
  {i \in 1..Len(connections) :
     /\ connections[i].from_entity_id = 1
     /\ connections[i].to_entity_id = call.to_entity_id
     /\ connections[i].relation_type = "mentions"
     /\ connections[i].evidence_source_type = "minutes_excerpt"
     /\ connections[i].evidence_source_id = 1}

\* the call left one row for its key, with evidence_count >= 1 (1 if the
\* row is new), added no other row and changed no row of another key
UpsertFrame ==
  /\ ~broken(call.s)
  /\ Cardinality(CallRows(call.s.connections)) = 1
  /\ \A i \in CallRows(call.s.connections) :
        /\ call.s.connections[i].evidence_count >= 1
        /\ CallRows(call.before) = {} => call.s.connections[i].evidence_count = 1
  /\ Len(call.s.connections)
       = Len(call.before) + (IF CallRows(call.before) = {} THEN 1 ELSE 0)
  /\ \A i \in 1..Len(call.before) :
        i \notin CallRows(call.before) => call.s.connections[i] = call.before[i]

FirstSeen(listed, id) ==
  CHOOSE k \in 1..Len(listed) :
     listed[k] = id /\ \A l \in 1..(k - 1) : listed[l] # id

\* C26: for from_date <= to_date and chunk_days >= 1 the crawl raises
\* nothing, its windows follow each other without gap or overlap from
\* from_date, each of at most chunk_days days and none past to_date, there
\* are at most as many as the range has days, and when it returns the
\* windows end at to_date and the result holds every integer id listed in
\* the range once, in the order first seen; for to_date < from_date or
\* chunk_days < 1 it raises ValueError before any listing call.
C26_CrawlCoversRange ==
  LET calls == call.calls
      listed == list_meetings(call.calendar, call.from_date, call.to_date)
      ints == {listed[k] : k \in 1..Len(listed)} \ {None}
  IN (call.op = "collect" /\ call.at # "called") =>
       IF call.to_date < call.from_date \/ call.chunk_days < 1
       THEN call.at = "raised" /\ call.raised = "ValueError" /\ calls = <<>>
       ELSE /\ call.raised = ""
            /\ Len(calls) <= call.to_date - call.from_date + 1
            /\ calls # <<>> => calls[1][1] = call.from_date
            /\ \A i \in 1..Len(calls) :
                  /\ calls[i][1] <= calls[i][2]
                  /\ calls[i][2] - calls[i][1] + 1 <= call.chunk_days
                  /\ calls[i][2] <= call.to_date
                  /\ i > 1 => calls[i][1] = calls[i - 1][2] + 1
            /\ call.at = "done" =>
                  /\ calls # <<>>
                  /\ calls[Len(calls)][2] = call.to_date
                  /\ {call.ids[k] : k \in 1..Len(call.ids)} = ints
                  /\ Len(call.ids) = Cardinality(ints)
                  /\ \A i, j \in 1..Len(call.ids) :
                        i < j => FirstSeen(listed, call.ids[i]) < FirstSeen(listed, call.ids[j])

\* the EntityMention rows and pending objects of a session that belong to
\* another source than src, in the order they were added
OtherMentions(s, src) ==
  LET Other(r) == ~IsSource(r, src) IN SelectSeq(s.mentions \o s.new_mentions, Other)

\* the EntityAlias rows and pending objects of a session
AllAliases(s) == s.aliases \o s.new_aliases

\* what a call for source src may change between sessions s and t
ReplaceFrame(s, t, src) ==
  /\ OtherMentions(t, src) = OtherMentions(s, src)
  /\ Len(t.entities) >= Len(s.entities)
  /\ \A i \in 1..Len(s.entities) :
        /\ t.entities[i].entity_type = s.entities[i].entity_type
        /\ t.entities[i].normalized_value = s.entities[i].normalized_value
        /\ \/ t.entities[i].display_value = s.entities[i].display_value
           \/ s.entities[i].display_value = ""
  /\ Len(AllAliases(t)) >= Len(AllAliases(s))
  /\ SubSeq(AllAliases(t), 1, Len(AllAliases(s))) = AllAliases(s)
  /\ \A k \in (Len(AllAliases(s)) + 1)..Len(AllAliases(t)) :
        t.entities[AllAliases(t)[k].entity_id].entity_type = "person"

\* C27: a call of replace_entity_mentions_for_source for source S that
\* returns, and every flush or commit that follows it, leaves every mention
\* of another source as it was, keeps every Entity row (its type and
\* normalized value unchanged, its display value changed only if it was
\* blank) and every EntityAlias row, and the aliases added are aliases of
\* persons.
C27_ReplaceTouchesOnlyItsSource ==
  [][(last'.op = "replace" /\ ~broken(session'))
     => ReplaceFrame(session, session', last'.src)]_vars

\* the source of the last call had flushed mentions that the call deleted
\* and mentions it added, and another source has flushed mentions
C27_Witness ==
  /\ last.op = "replace"
  /\ ~broken(session)
  /\ last.before # {}
  /\ last.made # <<>>
  /\ Triples(SourceMentions(session, last.src)) # last.before
  /\ \E i \in 1..Len(session.mentions) : ~IsSource(session.mentions[i], last.src)

\* the meeting ids of the results of a run, in the order they were appended
Attempted(run) == [k \in 1..Len(run.results) |-> run.results[k].meeting_id]

\* the results of a run that count as succeeded
Succeeded(run) ==
  {k \in 1..Len(run.results) : run.results[k].status \in {"ok", "no_agenda_html"}}

\* C28: the ids a run of ingest_range works on are the first max(limit, 0)
\* of the discovered ones; at every point of the loop the results are
\* those of the ids before the loop's position, one each and in discovery
\* order, an ingest that raised being a result with status error that the
\* failed counter counts, and succeeded + failed is the number of results;
\* when the run has returned every id has its result, so that
\* succeeded + failed = ingested = discovered.
C28_EachIdAttemptedOnce ==
  LET run == cache.run
      n == IF run.limit < 0 THEN 0
           ELSE IF run.limit < Len(run.found) THEN run.limit ELSE Len(run.found)
  IN (run.at = "ingest" \/ run.returned) =>
       /\ run.ids = SubSeq(run.found, 1, n)
       /\ Attempted(run) = SubSeq(run.ids, 1, run.i)
       /\ run.succeeded = Cardinality(Succeeded(run))
       /\ run.succeeded + run.failed = Len(run.results)
       /\ run.returned => /\ Len(run.results) = Len(run.ids)
                          /\ Attempted(run) = run.ids

\* a run has returned after an ingest that raised was followed by the
\* ingest of the next meeting
C28_Witness ==
  /\ cache.run.returned
  /\ cache.run.at = "idle"
  /\ Len(cache.run.results) = 2
  /\ cache.run.results[1].status = "error"
  /\ cache.run.results[2].status # "error"
  /\ cache.run.failed = 1

\* the status changes a job may make
StatusMoves ==
  { <<"queued", "running">>, <<"running", "completed">>, <<"running", "failed">> }

\* C29: a job's status changes only from queued to running and from running
\* to completed or failed; its result is not None only when the status is
\* completed and its error is not None only when the status is failed; and
\* a job whose thread was started reaches completed or failed.
C29_JobReachesTerminalStatus ==
  /\ [][call'.job.status # call.job.status
        => <<call.job.status, call'.job.status>> \in StatusMoves]_vars
  /\ [](call.job.result # <<>> => call.job.status = "completed")
  /\ [](call.job.error # <<>> => call.job.status = "failed")
  /\ (call.at = "started") ~> (call.job.status \in {"completed", "failed"})

\* the thread has ended with the job failed, after a request saw it running
C29_Witness ==
  /\ call.op = "job"
  /\ call.at = "done"
  /\ call.job.status = "failed"
  /\ call.job.error # <<>>
  /\ call.snapshot.status = "running"

\* C30: what get_job returned last has processed <= discovered, and what
\* it returns next has no smaller processed; outside a callback the job's
\* progress holds every value of the latest dict the worker passed to its
\* callback; and a completed job has processed = discovered, stage
\* completed and no current meeting.
C30_ProgressSnapshotsConsistent ==
  /\ [](call.snapshot.progress.processed <= call.snapshot.progress.discovered)
  /\ [][call'.snapshot.progress.processed >= call.snapshot.progress.processed]_vars
  /\ []((call.progress # <<>> /\ call.at \notin {"callback", "update"})
        => \A k \in DOMAIN call.progress[1] :
              call.job.progress[k] = call.progress[1][k])
  /\ [](call.snapshot.status = "completed"
        => /\ call.snapshot.progress.processed = call.snapshot.progress.discovered
           /\ call.snapshot.progress.stage = "completed"
           /\ call.snapshot.progress.current_meeting_id = None)

\* a request reads the completed job of two meetings after a request read
\* it between the two callbacks of the second meeting
C30_Witness ==
  /\ call.op = "job"
  /\ call.job.status = "completed"
  /\ call.job.progress.discovered = 2
  /\ call.snapshot.status = "running"
  /\ call.snapshot.progress.stage = "ingesting"
  /\ call.snapshot.progress.processed = 1
  /\ call.snapshot.progress.current_meeting_id = 1

====
